---------------------------- MODULE Spec2Model ----------------------------
(***************************************************************************)
(* A model of golox, a tree-walking interpreter for Lox written in Go.     *)
(*                                                                         *)
(* The pipeline of main.go is modelled end to end: the scanner works on    *)
(* the source text (a string), the parser on the scanned tokens, the       *)
(* resolver on the parsed tree, and the evaluator on the resolved tree     *)
(* with a heap of environment frames, functions, classes and instances.    *)
(* Every Go function is an operator of the same name that computes what    *)
(* the function computes; a Go method that mutates its receiver returns    *)
(* the new receiver.  The driver (run, runFile, runPrompt) is the state    *)
(* machine: one action per stage call of run.                              *)
(***************************************************************************)
EXTENDS Integers, Sequences, FiniteSets, TLC

(***************************************************************************)
(* Go maps, as functions with a finite domain of strings.                  *)
(***************************************************************************)
EmptyMap == [k \in {} |-> 0]

HasKey(m, k) == k \in DOMAIN m

MapPut(m, k, v) == [x \in (DOMAIN m) \cup {k} |-> IF x = k THEN v ELSE m[x]]

(***************************************************************************)
(* Tokens.  A token type is the name of its Go constant without the        *)
(* TokenType prefix.  A literal payload is none, a number or a string.     *)
(***************************************************************************)
NoLiteral == [k |-> "none", v |-> 0]

Token(ty, lexeme, literal, line) ==
    [ty |-> ty, lexeme |-> lexeme, literal |-> literal, line |-> line]

keywords ==
    [w \in {"and", "class", "else", "false", "for", "fun", "if", "nil", "or",
            "print", "return", "super", "this", "true", "var", "while",
            "break"} |->
        CASE w = "and" -> "And"       [] w = "class" -> "Class"
          [] w = "else" -> "Else"     [] w = "false" -> "False"
          [] w = "for" -> "For"       [] w = "fun" -> "Fun"
          [] w = "if" -> "If"         [] w = "nil" -> "Nil"
          [] w = "or" -> "Or"         [] w = "print" -> "Print"
          [] w = "return" -> "Return" [] w = "super" -> "Super"
          [] w = "this" -> "This"     [] w = "true" -> "True"
          [] w = "var" -> "Var"       [] w = "while" -> "While"
          [] w = "break" -> "Break"]

(***************************************************************************)
(* Scanner.  The state is the Go struct; start and current are 0-based     *)
(* byte offsets as in the source.                                          *)
(***************************************************************************)
NUL == "NUL"   \* the rune '\x00' that peek returns at the end of the source

CharAt(src, i) == SubSeq(src, i + 1, i + 1)

Slice(src, from, to) == SubSeq(src, from + 1, to)

SyntaxError(line, token, message) ==
    [line |-> line, token |-> token, message |-> message]

NewScanner(source) ==
    [source |-> source, tokens |-> <<>>, start |-> 0, current |-> 0,
     line |-> 1, errors |-> <<>>]

isDigit(c) == c \in {"0", "1", "2", "3", "4", "5", "6", "7", "8", "9"}

isAlpha(c) ==
    c \in {"a", "b", "c", "d", "e", "f", "g", "h", "i", "j", "k", "l", "m",
           "n", "o", "p", "q", "r", "s", "t", "u", "v", "w", "x", "y", "z",
           "A", "B", "C", "D", "E", "F", "G", "H", "I", "J", "K", "L", "M",
           "N", "O", "P", "Q", "R", "S", "T", "U", "V", "W", "X", "Y", "Z",
           "_"}

isAlphaNumeric(c) == isAlpha(c) \/ isDigit(c)

Scanner_isAtEnd(s) == s.current >= Len(s.source)

Scanner_peek(s) ==
    IF Scanner_isAtEnd(s) THEN NUL ELSE CharAt(s.source, s.current)

Scanner_peekNext(s) ==
    IF s.current + 1 >= Len(s.source) THEN NUL
    ELSE CharAt(s.source, s.current + 1)

Scanner_advance(s) == [s EXCEPT !.current = @ + 1]

\* Whether match consumes the expected character; the caller advances.
Scanner_match(s, expected) ==
    IF Scanner_isAtEnd(s) THEN FALSE
    ELSE CharAt(s.source, s.current) = expected

addTokenWithLiteral(s, ty, literal) ==
    [s EXCEPT !.tokens =
        Append(@, Token(ty, Slice(s.source, s.start, s.current), literal,
                        s.line))]

addToken(s, ty) == addTokenWithLiteral(s, ty, NoLiteral)

\* A scanLineComment that ends the comment at the first blank.
RECURSIVE scanLineComment_Word(_)
scanLineComment_Word(s) ==
    IF ~Scanner_isAtEnd(s) /\ Scanner_peek(s) \notin {"\n", " "}
    THEN scanLineComment_Word(Scanner_advance(s))
    ELSE s

RECURSIVE scanLineComment(_)
scanLineComment(s) ==
    IF ~Scanner_isAtEnd(s) /\ Scanner_peek(s) # "\n"
    THEN scanLineComment(Scanner_advance(s))
    ELSE s

\* A scanBlockComment that ends the comment at the first */, whatever /*
\* came before it.
RECURSIVE scanBlockComment_Flat(_)
scanBlockComment_Flat(s) ==
    IF Scanner_isAtEnd(s) THEN s
    ELSE IF Scanner_peek(s) = "*" /\ Scanner_peekNext(s) = "/"
    THEN Scanner_advance(Scanner_advance(s))
    ELSE scanBlockComment_Flat(Scanner_advance(s))

\* A nested /* is scanned by a recursive call, after which the loop of the
\* calling activation goes on; newlines inside the comment are not counted.
RECURSIVE scanBlockComment(_)
scanBlockComment(s) ==
    IF Scanner_isAtEnd(s) THEN s
    ELSE IF Scanner_peek(s) = "/" /\ Scanner_peekNext(s) = "*"
    THEN scanBlockComment(
            scanBlockComment(Scanner_advance(Scanner_advance(s))))
    ELSE IF Scanner_peek(s) = "*" /\ Scanner_peekNext(s) = "/"
    THEN Scanner_advance(Scanner_advance(s))
    ELSE scanBlockComment(Scanner_advance(s))

DigitValue(c) ==
    CASE c = "0" -> 0 [] c = "1" -> 1 [] c = "2" -> 2 [] c = "3" -> 3
      [] c = "4" -> 4 [] c = "5" -> 5 [] c = "6" -> 6 [] c = "7" -> 7
      [] c = "8" -> 8 [] c = "9" -> 9

\* A float64 is modelled by the exact fraction <<numerator, denominator>>
\* in lowest terms with a positive denominator; the catalog's numbers are
\* small enough for float64 arithmetic on them to be exact or, for a
\* quotient such as 1/3, to be told apart from every other value used.
RECURSIVE Gcd(_, _)
Gcd(a, b) == IF b = 0 THEN a ELSE Gcd(b, a % b)

Abs(n) == IF n < 0 THEN -n ELSE n

Rat(n, d) ==
    LET g == Gcd(Abs(n), Abs(d))
        sg == IF d < 0 THEN -1 ELSE 1
    IN  <<sg * (n \div g), sg * (d \div g)>>

RECURSIVE ParseDigits(_, _)
ParseDigits(text, acc) ==
    IF Len(text) = 0 THEN acc
    ELSE ParseDigits(Tail(text), acc * 10 + DigitValue(Head(text)))

RECURSIVE DotIndex(_, _)
DotIndex(text, i) ==
    IF i > Len(text) THEN 0
    ELSE IF SubSeq(text, i, i) = "." THEN i
    ELSE DotIndex(text, i + 1)

RECURSIVE Pow10(_)
Pow10(n) == IF n = 0 THEN 1 ELSE 10 * Pow10(n - 1)

\* strconv.ParseFloat on the text of a number token: digits, optionally
\* followed by a dot and digits.
ParseFloat(text) ==
    LET d == DotIndex(text, 1)
    IN  IF d = 0 THEN [k |-> "num", v |-> Rat(ParseDigits(text, 0), 1)]
        ELSE LET frac == SubSeq(text, d + 1, Len(text))
                 scale == Pow10(Len(frac))
             IN  [k |-> "num",
                  v |-> Rat(ParseDigits(SubSeq(text, 1, d - 1), 0) * scale
                              + ParseDigits(frac, 0), scale)]

RECURSIVE scanDigits(_)
scanDigits(s) ==
    IF isDigit(Scanner_peek(s)) THEN scanDigits(Scanner_advance(s)) ELSE s

scanNumber(s) ==
    LET s1 == scanDigits(s)
        s2 == IF Scanner_peek(s1) = "." /\ isDigit(Scanner_peekNext(s1))
              THEN scanDigits(Scanner_advance(s1))
              ELSE s1
    IN  addTokenWithLiteral(s2, "Number",
                            ParseFloat(Slice(s2.source, s2.start, s2.current)))

RECURSIVE scanIdentChars(_)
scanIdentChars(s) ==
    IF isAlphaNumeric(Scanner_peek(s)) THEN scanIdentChars(Scanner_advance(s))
    ELSE s

scanIdentifier(s) ==
    LET s1 == scanIdentChars(s)
        text == Slice(s1.source, s1.start, s1.current)
    IN  addToken(s1, IF text \in DOMAIN keywords THEN keywords[text]
                     ELSE "Identifier")

RECURSIVE scanStringChars(_)
scanStringChars(s) ==
    IF Scanner_peek(s) # "\"" /\ ~Scanner_isAtEnd(s)
    THEN scanStringChars(
            Scanner_advance(IF Scanner_peek(s) = "\n"
                            THEN [s EXCEPT !.line = @ + 1] ELSE s))
    ELSE s

scanString(s) ==
    LET s1 == scanStringChars(s)
    IN  IF Scanner_isAtEnd(s1)
        THEN [s1 EXCEPT !.errors =
                Append(@, SyntaxError(s1.line, "nil", "unterminated string"))]
        ELSE LET s2 == Scanner_advance(s1)
             IN  addTokenWithLiteral(s2, "String",
                    [k |-> "str",
                     v |-> Slice(s2.source, s2.start + 1, s2.current - 1)])

\* One of the two-character operators: `two` if the next character is '=',
\* else `one`.
scanOneOrTwo(s, one, two) ==
    IF Scanner_match(s, "=") THEN addToken(Scanner_advance(s), two)
    ELSE addToken(s, one)

scanToken(s0) ==
    LET c == CharAt(s0.source, s0.current)
        s == Scanner_advance(s0)
    IN  CASE c = "(" -> addToken(s, "LeftParen")
          [] c = ")" -> addToken(s, "RightParen")
          [] c = "{" -> addToken(s, "LeftBrace")
          [] c = "}" -> addToken(s, "RightBrace")
          [] c = "," -> addToken(s, "Comma")
          [] c = "." -> addToken(s, "Dot")
          [] c = "-" -> addToken(s, "Minus")
          [] c = "+" -> addToken(s, "Plus")
          [] c = ";" -> addToken(s, "Semicolon")
          [] c = "*" -> addToken(s, "Star")
          [] c = "!" -> scanOneOrTwo(s, "Bang", "BangEqual")
          [] c = "=" -> scanOneOrTwo(s, "Equal", "EqualEqual")
          [] c = "<" -> scanOneOrTwo(s, "Less", "LessEqual")
          [] c = ">" -> scanOneOrTwo(s, "Greater", "GreaterEqual")
          [] c = "?" -> addToken(s, "Question")
          [] c = ":" -> addToken(s, "Colon")
          [] c = "/" ->
                IF Scanner_match(s, "/")
                THEN scanLineComment(Scanner_advance(s))
                ELSE IF Scanner_match(s, "*")
                THEN scanBlockComment(Scanner_advance(s))
                ELSE addToken(s, "Slash")
          [] c \in {" ", "\r", "\t"} -> s
          [] c = "\n" -> [s EXCEPT !.line = @ + 1]
          [] c = "\"" -> scanString(s)
          [] OTHER ->
                IF isDigit(c) THEN scanNumber(s)
                ELSE IF isAlpha(c) THEN scanIdentifier(s)
                ELSE [s EXCEPT !.errors =
                        Append(@, SyntaxError(s.line, "nil",
                                              "unexpected character"))]

\* The token that ScanTokens appends once the loop has ended.
EOFToken(s) == Token("EOF", "(EOF)", NoLiteral, s.line)

(***************************************************************************)
(* Parser.  The state p is the Go struct.  A parsing method returns the    *)
(* new parser state, the node it built, and whether it left by             *)
(* panic(unwindToken); the panic carries the state reached so far.         *)
(***************************************************************************)
MaxParameters == 255

NoNode == [kind |-> "nil"]      \* a nil *Expr or *Stmt

NewParser(tokens) ==
    [tokens |-> tokens, current |-> 0, errors |-> <<>>, loopDepth |-> 0,
     panic |-> "nil"]

Ok(p, node) == [p |-> p, node |-> node, unwind |-> FALSE]

Unwind(p) == [p |-> p, node |-> NoNode, unwind |-> TRUE]

Parser_peek(p) == p.tokens[p.current + 1]

Parser_previous(p) == p.tokens[p.current]

Parser_isAtEnd(p) == Parser_peek(p).ty = "EOF"

\* `return p.previous()` reads p.tokens[p.current-1] whether or not the
\* caller uses the token: at current = 0 the index is -1 and the Go runtime
\* panics, which no recover of the parser catches.
Parser_advance(p) ==
    IF ~Parser_isAtEnd(p) THEN [p EXCEPT !.current = @ + 1]
    ELSE IF p.current = 0
    THEN [p EXCEPT !.panic = "index out of range [-1]"]
    ELSE p

Parser_check(p, ty) ==
    IF Parser_isAtEnd(p) THEN FALSE ELSE Parser_peek(p).ty = ty

\* Whether match finds one of the types; the caller advances.
Parser_match(p, tys) == \E ty \in tys : Parser_check(p, ty)

addError(p, t, message) ==
    [p EXCEPT !.errors = Append(@, SyntaxError(t.line, t, message))]

\* On success the node is the consumed token.
consume(p, ty, message) ==
    IF Parser_check(p, ty)
    THEN LET p1 == Parser_advance(p) IN Ok(p1, Parser_previous(p1))
    ELSE Unwind(addError(p, Parser_peek(p), message))

RECURSIVE synchronizeLoop(_)
synchronizeLoop(p) ==
    IF Parser_isAtEnd(p) THEN p
    ELSE IF Parser_previous(p).ty = "Semicolon" THEN p
    ELSE IF Parser_peek(p).ty \in {"Class", "Fun", "Var", "For", "If",
                                   "While", "Print", "Return"} THEN p
    ELSE synchronizeLoop(Parser_advance(p))

synchronize(p) == synchronizeLoop(Parser_advance(p))

VariableExpr(name) == [kind |-> "Variable", name |-> name, distance |-> 0]

LiteralExpr(k, v) == [kind |-> "Literal", value |-> [k |-> k, v |-> v]]

RECURSIVE Parser_call(_, _), parseStatement(_), declaration(_),
          classDeclaration(_),
          classBody(_, _, _), parameterList(_), parameterLoop(_, _),
          methodStatement(_), functionStatement(_), functionExpression(_),
          varDeclaration(_), statement(_), forStatement(_), ifStatement(_),
          whileStatement(_), returnStatement(_), breakStatement(_),
          block(_), blockLoop(_, _), printStatement(_),
          expressionStatement(_), expression(_), comma(_), assignment(_),
          ternary(_), or(_), and(_), equality(_), comparison(_), term(_),
          factor(_), operand(_, _), leftAssoc(_, _), leftAssocLoop(_, _, _),
          unary(_),
          call(_), callOn(_), callLoop(_, _), finishCall(_, _),
          argumentLoop(_, _),
          primary(_)

\* The deferred recover: an unwind is caught here, the parser synchronizes
\* and the statement is nil.
recover(r) == IF r.unwind THEN Ok(synchronize(r.p), NoNode) ELSE r

parseStatement(p) == recover(Parser_call("declaration", p))

parseExpression(p) == recover(Parser_call("expression", p))

declaration(p) ==
    CASE Parser_match(p, {"Class"}) -> classDeclaration(Parser_advance(p))
      [] Parser_match(p, {"Fun"}) -> functionStatement(Parser_advance(p))
      [] Parser_match(p, {"Var"}) -> varDeclaration(Parser_advance(p))
      [] OTHER -> statement(p)

\* The loop over the members of a class body; acc holds the two lists.
classBody(p, methods, classMethods) ==
    IF ~Parser_isAtEnd(p) /\ ~Parser_check(p, "RightBrace")
    THEN LET isClass == Parser_match(p, {"Class"})
             m == Parser_call("methodStatement", IF isClass THEN Parser_advance(p) ELSE p)
         IN  IF m.unwind THEN m
             ELSE IF isClass
             THEN classBody(m.p, methods, Append(classMethods, m.node))
             ELSE classBody(m.p, Append(methods, m.node), classMethods)
    ELSE Ok(p, [methods |-> methods, classMethods |-> classMethods])

classDeclaration(p) ==
    LET name == consume(p, "Identifier", "expected class name")
    IN  IF name.unwind THEN name ELSE
    LET hasSuper == Parser_match(name.p, {"Less"})
        sup == IF hasSuper
               THEN consume(Parser_advance(name.p), "Identifier",
                            "expected superclass name")
               ELSE Ok(name.p, NoNode)
    IN  IF sup.unwind THEN sup ELSE
    LET superclass == IF hasSuper THEN VariableExpr(Parser_previous(sup.p))
                      ELSE NoNode
        lb == consume(sup.p, "LeftBrace", "expected '{' before class body")
    IN  IF lb.unwind THEN lb ELSE
    LET body == classBody(lb.p, <<>>, <<>>)
    IN  IF body.unwind THEN body ELSE
    LET rb == consume(body.p, "RightBrace", "expected '}' after class body")
    IN  IF rb.unwind THEN rb
        ELSE Ok(rb.p, [kind |-> "ClassStmt", name |-> name.node,
                       superclass |-> superclass,
                       methods |-> body.node.methods,
                       classMethods |-> body.node.classMethods])

parameterLoop(p, parameters) ==
    LET p1 == IF Len(parameters) >= MaxParameters
              THEN addError(p, Parser_peek(p),
                            "can't have more than 255 parameters")
              ELSE p
        name == consume(p1, "Identifier", "expected parameter name")
    IN  IF name.unwind THEN name
        ELSE IF Parser_match(name.p, {"Comma"})
        THEN parameterLoop(Parser_advance(name.p),
                           Append(parameters, name.node))
        ELSE Ok(name.p, Append(parameters, name.node))

parameterList(p) ==
    LET ps == IF ~Parser_check(p, "RightParen") THEN parameterLoop(p, <<>>)
              ELSE Ok(p, <<>>)
    IN  IF ps.unwind THEN ps ELSE
    LET rp == consume(ps.p, "RightParen", "expected ')' after parameters")
    IN  IF rp.unwind THEN rp ELSE Ok(rp.p, ps.node)

FnExpr(parameters, body) ==
    [kind |-> "Fn", parameters |-> parameters, body |-> body]

methodStatement(p) ==
    LET name == consume(p, "Identifier", "expected method or property name")
    IN  IF name.unwind THEN name ELSE
    LET isProperty == ~Parser_match(name.p, {"LeftParen"})
        ps == IF isProperty THEN Ok(name.p, <<>>)
              ELSE Parser_call("parameterList", Parser_advance(name.p))
    IN  IF ps.unwind THEN ps ELSE
    LET lb == consume(ps.p, "LeftBrace", "expected '{' before method body")
    IN  IF lb.unwind THEN lb ELSE
    LET body == Parser_call("block", lb.p)
    IN  IF body.unwind THEN body
        ELSE Ok(body.p, [kind |-> "MethodStmt", name |-> name.node,
                         function |-> FnExpr(ps.node, body.node.statements),
                         isProperty |-> isProperty])

functionStatement(p) ==
    LET name == consume(p, "Identifier", "expected function name")
    IN  IF name.unwind THEN name ELSE
    LET function == Parser_call("functionExpression", name.p)
    IN  IF function.unwind THEN function
        ELSE Ok(function.p, [kind |-> "FnStmt", name |-> name.node,
                             function |-> function.node])

functionExpression(p) ==
    LET lp == consume(p, "LeftParen", "expected '(' after 'fun'")
    IN  IF lp.unwind THEN lp ELSE
    LET ps == Parser_call("parameterList", lp.p)
    IN  IF ps.unwind THEN ps ELSE
    LET lb == consume(ps.p, "LeftBrace", "expected '{' before function body")
    IN  IF lb.unwind THEN lb ELSE
    LET body == Parser_call("block", lb.p)
    IN  IF body.unwind THEN body
        ELSE Ok(body.p, FnExpr(ps.node, body.node.statements))

varDeclaration(p) ==
    LET name == consume(p, "Identifier", "expected variable name")
    IN  IF name.unwind THEN name ELSE
    LET init == IF Parser_match(name.p, {"Equal"})
                THEN Parser_call("expression", Parser_advance(name.p))
                ELSE Ok(name.p, NoNode)
    IN  IF init.unwind THEN init ELSE
    LET semi == consume(init.p, "Semicolon",
                        "expected ';' after variable declaration")
    IN  IF semi.unwind THEN semi
        ELSE Ok(semi.p, [kind |-> "VarStmt", name |-> name.node,
                         initializer |-> init.node])

statement(p) ==
    CASE Parser_match(p, {"For"}) -> forStatement(Parser_advance(p))
      [] Parser_match(p, {"If"}) -> ifStatement(Parser_advance(p))
      [] Parser_match(p, {"Print"}) -> printStatement(Parser_advance(p))
      [] Parser_match(p, {"Return"}) -> returnStatement(Parser_advance(p))
      [] Parser_match(p, {"While"}) -> whileStatement(Parser_advance(p))
      [] Parser_match(p, {"Break"}) -> breakStatement(Parser_advance(p))
      [] Parser_match(p, {"LeftBrace"}) -> block(Parser_advance(p))
      [] OTHER -> expressionStatement(p)

\* A loop body that lowers loopDepth after p.statement() has returned, and
\* not when it unwinds.
loopBody_NoDefer(p) ==
    LET r == Parser_call("statement", [p EXCEPT !.loopDepth = @ + 1])
    IN  IF r.unwind THEN r ELSE [r EXCEPT !.p.loopDepth = @ - 1]

\* The body of a loop: loopDepth is raised around p.statement() and lowered
\* by the deferred function, on a normal return and on an unwind alike.
loopBody(p) ==
    LET r == Parser_call("statement", [p EXCEPT !.loopDepth = @ + 1])
    IN  [r EXCEPT !.p.loopDepth = @ - 1]

BlockStmt(statements) == [kind |-> "BlockStmt", statements |-> statements]

WhileStmt(condition, body) ==
    [kind |-> "WhileStmt", condition |-> condition, body |-> body]

ExprStmt(expr) == [kind |-> "ExprStmt", expression |-> expr]

\* The three clauses of a for statement, each absent or parsed.
forInitializer(p) ==
    IF Parser_match(p, {"Semicolon"}) THEN Ok(Parser_advance(p), NoNode)
    ELSE IF Parser_match(p, {"Var"})
    THEN Parser_call("varDeclaration", Parser_advance(p))
    ELSE Parser_call("expressionStatement", p)

forCondition(p) ==
    IF ~Parser_check(p, "Semicolon") THEN Parser_call("expression", p)
    ELSE Ok(p, NoNode)

forIncrement(p) ==
    IF ~Parser_check(p, "RightParen") THEN Parser_call("expression", p)
    ELSE Ok(p, NoNode)

\* The while loop that forStatement builds out of the clauses and the body.
forLoop(initializer, condition, increment, body) ==
    LET body1 == IF increment # NoNode
                 THEN BlockStmt(<<body, ExprStmt(increment)>>)
                 ELSE body
        body2 == IF condition = NoNode
                 THEN WhileStmt(LiteralExpr("bool", TRUE), body1)
                 ELSE WhileStmt(condition, body1)
    IN  IF initializer # NoNode THEN BlockStmt(<<initializer, body2>>)
        ELSE body2

forStatement(p) ==
    LET lp == consume(p, "LeftParen", "expected '(' after 'if'")
    IN  IF lp.unwind THEN lp ELSE
    LET initializer == forInitializer(lp.p)
    IN  IF initializer.unwind THEN initializer ELSE
    LET condition == forCondition(initializer.p)
    IN  IF condition.unwind THEN condition ELSE
    LET semi == consume(condition.p, "Semicolon",
                        "expected ';' after condition")
    IN  IF semi.unwind THEN semi ELSE
    LET increment == forIncrement(semi.p)
    IN  IF increment.unwind THEN increment ELSE
    LET rp == consume(increment.p, "RightParen",
                      "expected ')' after for clauses")
    IN  IF rp.unwind THEN rp ELSE
    LET body == loopBody(rp.p)
    IN  IF body.unwind THEN body
        ELSE Ok(body.p, forLoop(initializer.node, condition.node,
                                increment.node, body.node))

ifStatement(p) ==
    LET lp == consume(p, "LeftParen", "expected '(' after 'if'")
    IN  IF lp.unwind THEN lp ELSE
    LET condition == Parser_call("expression", lp.p)
    IN  IF condition.unwind THEN condition ELSE
    LET rp == consume(condition.p, "RightParen",
                      "expected ')' after if condition")
    IN  IF rp.unwind THEN rp ELSE
    LET thenBranch == Parser_call("statement", rp.p)
    IN  IF thenBranch.unwind THEN thenBranch ELSE
    LET elseBranch == IF Parser_match(thenBranch.p, {"Else"})
                      THEN Parser_call("statement", Parser_advance(thenBranch.p))
                      ELSE Ok(thenBranch.p, NoNode)
    IN  IF elseBranch.unwind THEN elseBranch
        ELSE Ok(elseBranch.p, [kind |-> "IfStmt", condition |-> condition.node,
                               thenBranch |-> thenBranch.node,
                               elseBranch |-> elseBranch.node])

whileStatement(p) ==
    LET lp == consume(p, "LeftParen", "expected '(' after 'while'")
    IN  IF lp.unwind THEN lp ELSE
    LET condition == Parser_call("expression", lp.p)
    IN  IF condition.unwind THEN condition ELSE
    LET rp == consume(condition.p, "RightParen",
                      "expected ')' after while condition")
    IN  IF rp.unwind THEN rp ELSE
    LET body == loopBody(rp.p)
    IN  IF body.unwind THEN body
        ELSE Ok(body.p, WhileStmt(condition.node, body.node))

returnStatement(p) ==
    LET keyword == Parser_previous(p)
        value == IF ~Parser_check(p, "Semicolon") THEN Parser_call("expression", p)
                 ELSE Ok(p, NoNode)
    IN  IF value.unwind THEN value ELSE
    LET semi == consume(value.p, "Semicolon",
                        "expected ';' after return value")
    IN  IF semi.unwind THEN semi
        ELSE Ok(semi.p, [kind |-> "ReturnStmt", keyword |-> keyword,
                         value |-> value.node])

breakStatement(p) ==
    LET p1 == IF p.loopDepth = 0
              THEN addError(p, Parser_previous(p),
                            "break can only be used inside a loop")
              ELSE p
        semi == consume(p1, "Semicolon", "expected ';' after 'break'")
    IN  IF semi.unwind THEN semi ELSE Ok(semi.p, [kind |-> "BreakStmt"])

blockLoop(p, statements) ==
    IF ~Parser_isAtEnd(p) /\ ~Parser_check(p, "RightBrace")
    THEN LET decl == parseStatement(p)
         IN  blockLoop(decl.p, IF decl.node # NoNode
                               THEN Append(statements, decl.node)
                               ELSE statements)
    ELSE Ok(p, statements)

block(p) ==
    LET body == blockLoop(p, <<>>)
        rb == consume(body.p, "RightBrace", "expected '}' after block")
    IN  IF rb.unwind THEN rb ELSE Ok(rb.p, BlockStmt(body.node))

printStatement(p) ==
    LET value == Parser_call("expression", p)
    IN  IF value.unwind THEN value ELSE
    LET semi == consume(value.p, "Semicolon", "expected ';' after value")
    IN  IF semi.unwind THEN semi
        ELSE Ok(semi.p, [kind |-> "PrintStmt", expression |-> value.node])

expressionStatement(p) ==
    LET expr == Parser_call("expression", p)
    IN  IF expr.unwind THEN expr ELSE
    LET semi == consume(expr.p, "Semicolon", "expected ';' after expression")
    IN  IF semi.unwind THEN semi ELSE Ok(semi.p, ExprStmt(expr.node))

expression(p) == comma(p)

\* The loop shared by the left-associative binary levels: fn names the
\* parsing method, operand(p, fn) parses one of its operands.
OperatorsOf(fn) ==
    CASE fn = "comma" -> {"Comma"}
      [] fn = "or" -> {"Or"}
      [] fn = "and" -> {"And"}
      [] fn = "equality" -> {"BangEqual", "EqualEqual"}
      [] fn = "comparison" -> {"Greater", "GreaterEqual", "Less", "LessEqual"}
      [] fn = "term" -> {"Minus", "Plus"}
      [] fn = "factor" -> {"Slash", "Star"}

operand(p, fn) ==
    CASE fn = "comma" -> Parser_call("assignment", p)
      [] fn = "or" -> Parser_call("and", p)
      [] fn = "and" -> Parser_call("equality", p)
      [] fn = "equality" -> Parser_call("comparison", p)
      [] fn = "comparison" -> Parser_call("term", p)
      [] fn = "term" -> Parser_call("factor", p)
      [] fn = "factor" -> Parser_call("unary", p)

\* A left-associative level: its first operand, then the loop.
leftAssoc(expr, fn) ==
    IF expr.unwind THEN expr ELSE leftAssocLoop(expr.p, expr.node, fn)

leftAssocLoop(p, expr, fn) ==
    IF Parser_match(p, OperatorsOf(fn))
    THEN LET p1 == Parser_advance(p)
             operator == Parser_previous(p1)
             right == operand(p1, fn)
         IN  IF right.unwind THEN right
             ELSE leftAssocLoop(right.p,
                    [kind |-> IF fn \in {"or", "and"} THEN "Logical"
                              ELSE "Binary",
                     left |-> expr, operator |-> operator,
                     right |-> right.node], fn)
    ELSE Ok(p, expr)

comma(p) == leftAssoc(assignment(p), "comma")

\* What assignment does once p.ternary() has returned expr.
assignmentTo(expr) ==
    IF expr.unwind THEN expr ELSE
    IF Parser_match(expr.p, {"Equal"})
    THEN LET p1 == Parser_advance(expr.p)
             equals == Parser_previous(p1)
             value == Parser_call("assignment", p1)
         IN  IF value.unwind THEN value
             ELSE IF expr.node.kind = "Variable"
             THEN Ok(value.p, [kind |-> "Assign", name |-> expr.node.name,
                               value |-> value.node, distance |-> 0])
             ELSE IF expr.node.kind = "Get"
             THEN Ok(value.p, [kind |-> "Set",
                               object |-> expr.node.object,
                               name |-> expr.node.name,
                               value |-> value.node])
             ELSE Ok(addError(value.p, equals,
                              "invalid assignment target"), expr.node)
    ELSE expr

assignment(p) == assignmentTo(ternary(p))

\* What ternary does once p.or() has returned expr.
ternaryOf(expr) ==
    IF expr.unwind THEN expr ELSE
    IF Parser_match(expr.p, {"Question"})
    THEN LET left == Parser_call("expression", Parser_advance(expr.p))
         IN  IF left.unwind THEN left ELSE
         LET colon == consume(left.p, "Colon",
                              "expected ':' after expression")
         IN  IF colon.unwind THEN colon ELSE
         LET right == Parser_call("ternary", colon.p)
         IN  IF right.unwind THEN right
             ELSE Ok(right.p, [kind |-> "Ternary", cond |-> expr.node,
                               left |-> left.node, right |-> right.node])
    ELSE expr

ternary(p) == ternaryOf(or(p))

or(p) == leftAssoc(and(p), "or")

and(p) == leftAssoc(equality(p), "and")

equality(p) == leftAssoc(comparison(p), "equality")

comparison(p) == leftAssoc(term(p), "comparison")

term(p) == leftAssoc(factor(p), "term")

factor(p) == leftAssoc(unary(p), "factor")

unary(p) ==
    IF Parser_match(p, {"Bang", "Minus"})
    THEN LET p1 == Parser_advance(p)
             operator == Parser_previous(p1)
             right == Parser_call("unary", p1)
         IN  IF right.unwind THEN right
             ELSE Ok(right.p, [kind |-> "Unary", operator |-> operator,
                               right |-> right.node])
    ELSE call(p)

\* The loop of call over the calls and property accesses that follow expr.
callOn(expr) == IF expr.unwind THEN expr ELSE callLoop(expr.p, expr.node)

callLoop(p, expr) ==
    IF Parser_match(p, {"LeftParen"})
    THEN callOn(finishCall(Parser_advance(p), expr))
    ELSE IF Parser_match(p, {"Dot"})
    THEN LET name == consume(Parser_advance(p), "Identifier",
                             "expected property name")
         IN  IF name.unwind THEN name
             ELSE callLoop(name.p, [kind |-> "Get", object |-> expr,
                                    name |-> name.node])
    ELSE Ok(p, expr)

call(p) == callOn(primary(p))

argumentLoop(p, arguments) ==
    LET p1 == IF Len(arguments) >= MaxParameters
              THEN addError(p, Parser_peek(p),
                            "can't have more than 255 parameters")
              ELSE p
        arg == Parser_call("assignment", p1)
    IN  IF arg.unwind THEN arg
        ELSE IF Parser_match(arg.p, {"Comma"})
        THEN argumentLoop(Parser_advance(arg.p), Append(arguments, arg.node))
        ELSE Ok(arg.p, Append(arguments, arg.node))

\* What finishCall does once the arguments are parsed.
closeCall(args, callee) ==
    IF args.unwind THEN args ELSE
    LET paren == consume(args.p, "RightParen",
                         "expected ')' after parameter list")
    IN  IF paren.unwind THEN paren
        ELSE Ok(paren.p, [kind |-> "Call", callee |-> callee,
                          paren |-> paren.node, arguments |-> args.node])

finishCall(p, callee) ==
    closeCall(IF ~Parser_check(p, "RightParen") THEN argumentLoop(p, <<>>)
              ELSE Ok(p, <<>>), callee)

primary(p) ==
    CASE Parser_match(p, {"False"}) ->
            Ok(Parser_advance(p), LiteralExpr("bool", FALSE))
      [] Parser_match(p, {"True"}) ->
            Ok(Parser_advance(p), LiteralExpr("bool", TRUE))
      [] Parser_match(p, {"Nil"}) ->
            Ok(Parser_advance(p), LiteralExpr("nil", 0))
      [] Parser_match(p, {"Number", "String"}) ->
            Ok(Parser_advance(p), [kind |-> "Literal",
                                   value |-> Parser_peek(p).literal])
      [] Parser_match(p, {"This"}) ->
            Ok(Parser_advance(p), [kind |-> "This", keyword |-> Parser_peek(p),
                                   distance |-> 0])
      [] Parser_match(p, {"Identifier"}) ->
            Ok(Parser_advance(p), VariableExpr(Parser_peek(p)))
      [] Parser_match(p, {"Fun"}) -> Parser_call("functionExpression", Parser_advance(p))
      [] Parser_match(p, {"LeftParen"}) ->
            LET expr == Parser_call("expression", Parser_advance(p))
            IN  IF expr.unwind THEN expr ELSE
            LET rp == consume(expr.p, "RightParen",
                              "expected ')' after expression")
            IN  IF rp.unwind THEN rp
                ELSE Ok(rp.p, [kind |-> "Grouping", expression |-> expr.node])
      [] OTHER -> Unwind(addError(p, Parser_peek(p), "expected expression"))

\* p.method(): the call of a parsing method, named by a string so that the
\* one definition serves every call site.
Parser_call(method, p) ==
    CASE method = "parseStatement" -> parseStatement(p)
      [] method = "declaration" -> declaration(p)
      [] method = "classDeclaration" -> classDeclaration(p)
      [] method = "parameterList" -> parameterList(p)
      [] method = "methodStatement" -> methodStatement(p)
      [] method = "functionStatement" -> functionStatement(p)
      [] method = "functionExpression" -> functionExpression(p)
      [] method = "varDeclaration" -> varDeclaration(p)
      [] method = "statement" -> statement(p)
      [] method = "forStatement" -> forStatement(p)
      [] method = "ifStatement" -> ifStatement(p)
      [] method = "whileStatement" -> whileStatement(p)
      [] method = "returnStatement" -> returnStatement(p)
      [] method = "breakStatement" -> breakStatement(p)
      [] method = "block" -> block(p)
      [] method = "printStatement" -> printStatement(p)
      [] method = "expressionStatement" -> expressionStatement(p)
      [] method = "expression" -> expression(p)
      [] method = "comma" -> comma(p)
      [] method = "assignment" -> assignment(p)
      [] method = "ternary" -> ternary(p)
      [] method = "or" -> or(p)
      [] method = "and" -> and(p)
      [] method = "equality" -> equality(p)
      [] method = "comparison" -> comparison(p)
      [] method = "term" -> term(p)
      [] method = "factor" -> factor(p)
      [] method = "unary" -> unary(p)
      [] method = "call" -> call(p)
      [] method = "primary" -> primary(p)

ParseExpression(tokens) ==
    LET Result(r) ==
            IF r.node = NoNode
            THEN [expr |-> NoNode, errors |-> r.p.errors, p |-> r.p]
            ELSE IF ~Parser_isAtEnd(r.p)
            THEN [expr |-> r.node,
                  errors |-> addError(r.p, Parser_peek(r.p),
                                      "trailing junk").errors,
                  p |-> addError(r.p, Parser_peek(r.p), "trailing junk")]
            ELSE [expr |-> r.node, errors |-> r.p.errors, p |-> r.p]
    IN  Result(parseExpression(NewParser(tokens)))


(***************************************************************************)
(* Resolver.  The state r is the Go struct; a scope maps a name to its     *)
(* localVar.  A Resolve method returns the new resolver state and the      *)
(* node with the distance it wrote through the node's *int.                *)
(***************************************************************************)
ResolverError(token, message) == [token |-> token, message |-> message]

NewResolver ==
    [scopes |-> <<EmptyMap>>, errors |-> <<>>, currentFunction |-> "None"]

currentScope(r) == r.scopes[Len(r.scopes)]

AddError(r, token, message) ==
    [r EXCEPT !.errors = Append(@, ResolverError(token, message))]

BeginScope(r) == [r EXCEPT !.scopes = Append(@, EmptyMap)]

\* The errors EndScope adds for the names of `names`.  Go ranges over the
\* map in an unspecified order; the order taken here is arbitrary and no
\* property below depends on it.
\* An EndScope that reports every name of zero usages, the names that
\* begin with `_` too.
RECURSIVE unusedErrors_Underscore(_, _, _)
unusedErrors_Underscore(r, scope, names) ==
    IF names = {} THEN r
    ELSE LET name == CHOOSE n \in names : TRUE
             v == scope[name]
         IN  unusedErrors_Underscore(
                IF v.usages = 0
                THEN AddError(r, v.token,
                              "'" \o name \o "' declared but not used")
                ELSE r,
                scope, names \ {name})

RECURSIVE unusedErrors(_, _, _)
unusedErrors(r, scope, names) ==
    IF names = {} THEN r
    ELSE LET name == CHOOSE n \in names : TRUE
             v == scope[name]
         IN  unusedErrors(
                IF v.usages = 0 /\ SubSeq(name, 1, 1) # "_"
                THEN AddError(r, v.token,
                              "'" \o name \o "' declared but not used")
                ELSE r,
                scope, names \ {name})

EndScope(r) ==
    LET scope == r.scopes[Len(r.scopes)]
        r1 == unusedErrors(r, scope, DOMAIN scope)
    IN  [r1 EXCEPT !.scopes = SubSeq(@, 1, Len(@) - 1)]

Declare(r, name) ==
    LET r1 == IF HasKey(currentScope(r), name.lexeme)
              THEN AddError(r, name, "'" \o name.lexeme
                                     \o "' already declared in this scope")
              ELSE r
    IN  [r1 EXCEPT !.scopes[Len(r.scopes)] =
            MapPut(@, name.lexeme,
                   [token |-> name, usages |-> 0, defined |-> FALSE])]

\* Define panics when the name was not declared; every call in the source
\* follows a Declare of the same name in the same scope.
Define(r, name) ==
    [r EXCEPT !.scopes[Len(r.scopes)][name.lexeme].defined = TRUE]

\* Called on a scope that BeginScope has just opened, so the duplicate
\* panic cannot be reached.
DeclareAndDefineNative(r, name) ==
    [r EXCEPT !.scopes[Len(r.scopes)] =
        MapPut(@, name, [token |-> "nil", usages |-> 1, defined |-> TRUE])]

\* An IsDefined that looks for the name in every scope, from the
\* innermost one outwards.
IsDefined_AnyScope(r, name) ==
    LET holders == {i \in 1..Len(r.scopes) : HasKey(r.scopes[i], name.lexeme)}
    IN  holders = {}
        \/ r.scopes[CHOOSE i \in holders : \A j \in holders : j <= i]
                [name.lexeme].defined

IsDefined(r, name) ==
    LET scope == currentScope(r)
    IN  ~HasKey(scope, name.lexeme) \/ scope[name.lexeme].defined

\* The i of the loop at which the name is found, or -1.
RECURSIVE findScope(_, _, _)
findScope(r, lexeme, i) ==
    IF i >= Len(r.scopes) THEN -1
    ELSE IF HasKey(r.scopes[Len(r.scopes) - i], lexeme) THEN i
    ELSE findScope(r, lexeme, i + 1)

\* A ResolveLocal that answers the number of scopes for a name found in none.
ResolveLocal_Count(r, name) ==
    LET i == findScope(r, name.lexeme, 0)
    IN  [r |-> IF i = -1 THEN r
               ELSE [r EXCEPT !.scopes[Len(r.scopes) - i][name.lexeme].usages
                                  = @ + 1],
         distance |-> IF i = -1 THEN Len(r.scopes) ELSE i]

\* A ResolveLocal that answers -1 for a name found in the outermost scope.
ResolveLocal_Global(r, name) ==
    LET i == findScope(r, name.lexeme, 0)
    IN  IF i = -1 THEN [r |-> r, distance |-> -1]
        ELSE [r |-> [r EXCEPT !.scopes[Len(r.scopes) - i][name.lexeme].usages
                                    = @ + 1],
              distance |-> IF i = Len(r.scopes) - 1 THEN -1 ELSE i]

ResolveLocal(r, name) ==
    LET i == findScope(r, name.lexeme, 0)
    IN  IF i = -1 THEN [r |-> r, distance |-> -1]
        ELSE [r |-> [r EXCEPT !.scopes[Len(r.scopes) - i][name.lexeme].usages
                                    = @ + 1],
              distance |-> i]

CurrentFunction(r) == r.currentFunction

RECURSIVE Resolve(_, _), ResolveAll(_, _), ResolveFunction(_, _, _)

\* `for _, x := range nodes { x.Resolve(r) }`
ResolveAll(nodes, r) ==
    IF Len(nodes) = 0 THEN [r |-> r, node |-> <<>>]
    ELSE LET h == Resolve(Head(nodes), r)
             t == ResolveAll(Tail(nodes), h.r)
         IN  [r |-> t.r, node |-> <<h.node>> \o t.node]

RECURSIVE declareParameters(_, _)
declareParameters(r, parameters) ==
    IF Len(parameters) = 0 THEN r
    ELSE declareParameters(Define(Declare(r, Head(parameters)),
                                  Head(parameters)),
                           Tail(parameters))

\* A ResolveFunction that leaves the function type of the body in place
\* when the body has been resolved.
ResolveFunction_NoRestore(r, e, ty) ==
    LET r1 == BeginScope([r EXCEPT !.currentFunction = ty])
        r2 == declareParameters(r1, e.parameters)
        body == ResolveAll(e.body, r2)
    IN  [r |-> EndScope(body.r), node |-> [e EXCEPT !.body = body.node]]

ResolveFunction(r, e, ty) ==
    LET oldTy == r.currentFunction
        r1 == BeginScope([r EXCEPT !.currentFunction = ty])
        r2 == declareParameters(r1, e.parameters)
        body == ResolveAll(e.body, r2)
        r3 == EndScope(body.r)
    IN  [r |-> [r3 EXCEPT !.currentFunction = oldTy],
         node |-> [e EXCEPT !.body = body.node]]

BinaryExpr_Resolve(e, r) ==
    LET left == Resolve(e.left, r)
        right == Resolve(e.right, left.r)
    IN  [r |-> right.r,
         node |-> [e EXCEPT !.left = left.node, !.right = right.node]]

TernaryExpr_Resolve(e, r) ==
    LET cond == Resolve(e.cond, r)
        left == Resolve(e.left, cond.r)
        right == Resolve(e.right, left.r)
    IN  [r |-> right.r,
         node |-> [e EXCEPT !.cond = cond.node, !.left = left.node,
                            !.right = right.node]]

VariableExpr_Resolve(e, r) ==
    LET r1 == IF ~IsDefined(r, e.name)
              THEN AddError(r, e.name, "cannot refer to '" \o e.name.lexeme
                                       \o "' in its own initializer")
              ELSE r
        loc == ResolveLocal(r1, e.name)
    IN  [r |-> loc.r, node |-> [e EXCEPT !.distance = loc.distance]]

AssignExpr_Resolve(e, r) ==
    LET value == Resolve(e.value, r)
        loc == ResolveLocal(value.r, e.name)
    IN  [r |-> loc.r,
         node |-> [e EXCEPT !.value = value.node, !.distance = loc.distance]]

CallExpr_Resolve(e, r) ==
    LET callee == Resolve(e.callee, r)
        args == ResolveAll(e.arguments, callee.r)
    IN  [r |-> args.r,
         node |-> [e EXCEPT !.callee = callee.node, !.arguments = args.node]]

SetExpr_Resolve(e, r) ==
    LET value == Resolve(e.value, r)
        object == Resolve(e.object, value.r)
    IN  [r |-> object.r,
         node |-> [e EXCEPT !.value = value.node, !.object = object.node]]

\* A ThisExpr.Resolve that accepts `this` inside every function.
ThisExpr_Resolve_AnyFunction(e, r) ==
    LET r1 == IF CurrentFunction(r) = "None"
              THEN AddError(r, e.keyword, "cannot use this outside method")
              ELSE r
        loc == ResolveLocal(r1, e.keyword)
    IN  [r |-> loc.r, node |-> [e EXCEPT !.distance = loc.distance]]

ThisExpr_Resolve(e, r) ==
    LET ty == CurrentFunction(r)
        r1 == IF ty # "Method" /\ ty # "Initializer"
              THEN AddError(r, e.keyword, "cannot use this outside method")
              ELSE r
        loc == ResolveLocal(r1, e.keyword)
    IN  [r |-> loc.r, node |-> [e EXCEPT !.distance = loc.distance]]

\* The Resolve methods that only pass the resolver on to one child.
ResolveChild(e, r, field) ==
    LET c == Resolve(e[field], r)
    IN  [r |-> c.r, node |-> [e EXCEPT ![field] = c.node]]

VarStmt_Resolve(s, r) ==
    LET r1 == Declare(r, s.name)
        init == IF s.initializer # NoNode THEN Resolve(s.initializer, r1)
                ELSE [r |-> r1, node |-> NoNode]
    IN  [r |-> Define(init.r, s.name),
         node |-> [s EXCEPT !.initializer = init.node]]

BlockStmt_Resolve(s, r) ==
    LET body == ResolveAll(s.statements, BeginScope(r))
    IN  [r |-> EndScope(body.r),
         node |-> [s EXCEPT !.statements = body.node]]

IfStmt_Resolve(s, r) ==
    LET condition == Resolve(s.condition, r)
        thenBranch == Resolve(s.thenBranch, condition.r)
        elseBranch == IF s.elseBranch # NoNode
                      THEN Resolve(s.elseBranch, thenBranch.r)
                      ELSE [r |-> thenBranch.r, node |-> NoNode]
    IN  [r |-> elseBranch.r,
         node |-> [s EXCEPT !.condition = condition.node,
                            !.thenBranch = thenBranch.node,
                            !.elseBranch = elseBranch.node]]

WhileStmt_Resolve(s, r) ==
    LET condition == Resolve(s.condition, r)
        body == Resolve(s.body, condition.r)
    IN  [r |-> body.r,
         node |-> [s EXCEPT !.condition = condition.node,
                            !.body = body.node]]

FnStmt_Resolve(s, r) ==
    LET function == Resolve(s.function, Define(Declare(r, s.name), s.name))
    IN  [r |-> function.r, node |-> [s EXCEPT !.function = function.node]]

ReturnStmt_Resolve(s, r) ==
    LET ty == CurrentFunction(r)
        r1 == IF ty = "None"
              THEN AddError(r, s.keyword, "cannot return outside function")
              ELSE IF ty = "Initializer" /\ s.value # NoNode
              THEN AddError(r, s.keyword,
                            "cannot return value from initializer")
              ELSE r
        value == IF s.value # NoNode THEN Resolve(s.value, r1)
                 ELSE [r |-> r1, node |-> NoNode]
    IN  [r |-> value.r, node |-> [s EXCEPT !.value = value.node]]

\* The two loops of ClassStmt.Resolve over the class methods and the
\* methods; isClass tells which one.
RECURSIVE resolveMethods(_, _, _)
resolveMethods(methods, r, isClass) ==
    IF Len(methods) = 0 THEN [r |-> r, node |-> <<>>]
    ELSE LET method == Head(methods)
             isInit == ~isClass /\ method.name.lexeme = "init"
             r1 == IF isInit /\ method.isProperty
                   THEN AddError(r, method.name, "init cannot be a property")
                   ELSE r
             f == ResolveFunction(r1, method.function,
                                  IF isInit THEN "Initializer" ELSE "Method")
             t == resolveMethods(Tail(methods), f.r, isClass)
         IN  [r |-> t.r,
              node |-> <<[method EXCEPT !.function = f.node]>> \o t.node]

ClassStmt_Resolve(s, r) ==
    LET r1 == Define(Declare(r, s.name), s.name)
        hasSuper == s.superclass # NoNode
        r2 == IF hasSuper /\ s.name.lexeme = s.superclass.name.lexeme
              THEN AddError(r1, s.superclass.name,
                            "class cannot inherit from itself")
              ELSE r1
        sup == IF hasSuper THEN Resolve(s.superclass, r2)
               ELSE [r |-> r2, node |-> NoNode]
        r3 == IF hasSuper
              THEN DeclareAndDefineNative(BeginScope(sup.r), "super")
              ELSE sup.r
        r4 == DeclareAndDefineNative(BeginScope(r3), "this")
        cms == resolveMethods(s.classMethods, r4, TRUE)
        ms == resolveMethods(s.methods, cms.r, FALSE)
        r5 == EndScope(ms.r)
        r6 == IF hasSuper THEN EndScope(r5) ELSE r5
    IN  [r |-> r6,
         node |-> [s EXCEPT !.superclass = sup.node,
                            !.classMethods = cms.node, !.methods = ms.node]]

\* Dispatch on the dynamic type of the Expr or Stmt.  A Go call gets its
\* receiver state when it is made: the test of r has TLC compute r here
\* and not at its first use inside the method.
Resolve(n, r) ==
    IF DOMAIN r = {} THEN [r |-> r, node |-> n] ELSE
    CASE n.kind = "Binary" -> BinaryExpr_Resolve(n, r)
      [] n.kind = "Logical" -> BinaryExpr_Resolve(n, r)
      [] n.kind = "Grouping" -> ResolveChild(n, r, "expression")
      [] n.kind = "Literal" -> [r |-> r, node |-> n]
      [] n.kind = "Unary" -> ResolveChild(n, r, "right")
      [] n.kind = "Ternary" -> TernaryExpr_Resolve(n, r)
      [] n.kind = "Variable" -> VariableExpr_Resolve(n, r)
      [] n.kind = "Assign" -> AssignExpr_Resolve(n, r)
      [] n.kind = "Call" -> CallExpr_Resolve(n, r)
      [] n.kind = "Fn" -> ResolveFunction(r, n, "Function")
      [] n.kind = "Get" -> ResolveChild(n, r, "object")
      [] n.kind = "Set" -> SetExpr_Resolve(n, r)
      [] n.kind = "This" -> ThisExpr_Resolve(n, r)
      [] n.kind = "ExprStmt" -> ResolveChild(n, r, "expression")
      [] n.kind = "PrintStmt" -> ResolveChild(n, r, "expression")
      [] n.kind = "VarStmt" -> VarStmt_Resolve(n, r)
      [] n.kind = "BlockStmt" -> BlockStmt_Resolve(n, r)
      [] n.kind = "IfStmt" -> IfStmt_Resolve(n, r)
      [] n.kind = "WhileStmt" -> WhileStmt_Resolve(n, r)
      [] n.kind = "BreakStmt" -> [r |-> r, node |-> n]
      [] n.kind = "FnStmt" -> FnStmt_Resolve(n, r)
      [] n.kind = "ReturnStmt" -> ReturnStmt_Resolve(n, r)
      [] n.kind = "ClassStmt" -> ClassStmt_Resolve(n, r)


(***************************************************************************)
(* Values.  A Value is [k, v]: k is the dynamic type, v the payload; the   *)
(* pointer types, LoxFn, NativeFn, Class and Instance, carry the index     *)
(* of the object in the heap h, so that == on them is pointer identity.    *)
(***************************************************************************)
NewNil == [k |-> "nil", v |-> 0]

NewBool(value) == [k |-> "bool", v |-> value]

NewNumber(value) == [k |-> "num", v |-> value]

NewString(value) == [k |-> "str", v |-> value]

Type(x) ==
    CASE x.k = "nil" -> "TypeNil"
      [] x.k = "bool" -> "TypeBool"
      [] x.k = "num" -> "TypeNumber"
      [] x.k = "str" -> "TypeString"
      [] x.k \in {"fn", "native"} -> "TypeFn"
      [] x.k = "class" -> "TypeClass"
      [] x.k = "instance" -> "TypeInstance"

Bool(x) ==
    CASE x.k = "nil" -> FALSE
      [] x.k = "bool" -> x.v
      [] OTHER -> TRUE

\* x.Equal(other): Bool, Number and String compare type and payload; Nil
\* and the pointer types compare the interface values themselves.
Equal(x, other) == x.k = other.k /\ x.v = other.v

Digit(d) == SubSeq("0123456789", d + 1, d + 1)

RECURSIVE FormatInt(_)
FormatInt(n) ==
    IF n < 0 THEN "-" \o FormatInt(-n)
    ELSE IF n < 10 THEN Digit(n)
    ELSE FormatInt(n \div 10) \o Digit(n % 10)

\* The digits after the decimal point of rem/den, at most `left` of them.
RECURSIVE FractionDigits(_, _, _)
FractionDigits(rem, den, left) ==
    IF rem = 0 \/ left = 0 THEN ""
    ELSE Digit((rem * 10) \div den)
         \o FractionDigits((rem * 10) % den, den, left - 1)

\* strconv.FormatFloat(value, 'f', -1, 64): the shortest decimal text that
\* reads back as the same float64; for a fraction without a finite
\* expansion that is 16 digits after the point.
FormatFloat(value) ==
    LET n == value[1]
        d == value[2]
        whole == Abs(n) \div d
    IN  (IF n < 0 THEN "-" ELSE "") \o FormatInt(whole)
        \o (IF Abs(n) % d = 0 THEN ""
            ELSE "." \o FractionDigits(Abs(n) % d, d, 16))

\* x.String() for a value of the heap h.
String(h, x) ==
    CASE x.k = "nil" -> "nil"
      [] x.k = "bool" -> IF x.v THEN "true" ELSE "false"
      [] x.k = "num" -> FormatFloat(x.v)
      [] x.k = "str" -> x.v
      [] x.k = "native" -> "<native fn '" \o h.natives[x.v].name \o "'>"
      [] x.k = "fn" -> IF h.fns[x.v].name # "nil"
                       THEN "<fn '" \o h.fns[x.v].name \o "'>"
                       ELSE "<anonymous fn>"
      [] x.k = "class" -> "<class '" \o h.classes[x.v].name \o "'>"
      [] x.k = "instance" ->
            "<instance of class '"
            \o h.classes[h.instances[x.v].class].name \o "'>"

\* x.Repr(): String() except for a string, which %q quotes.  The catalog's
\* strings hold no character that %q escapes.
Repr(h, x) ==
    IF x.k = "str" THEN "\"" \o x.v \o "\"" ELSE String(h, x)

(***************************************************************************)
(* The heap h holds every object the interpreter allocates: environment    *)
(* frames, functions, classes and instances, each addressed by its index.  *)
(* stdout is the text written by fmt.Println; now is what time.Now gives.  *)
(* The other fields are history of the current run: raised, whether a      *)
(* runtime error was raised; executed, the number of Execute calls         *)
(* started; late, the calls started after the error; stray, whether a loop *)
(* was ended by a break it does not enclose; initCalls, the initializer    *)
(* calls that returned; lookups, the kind and depth of every resolved      *)
(* reference that was evaluated; unresolved, whether one of them did not   *)
(* find its frame or its cell.                                             *)
(***************************************************************************)
NewHeap(now) ==
    [envs |-> <<>>, natives |-> <<>>, fns |-> <<>>, classes |-> <<>>,
     instances |-> <<>>, stdout |-> <<>>, now |-> now,
     raised |-> FALSE, executed |-> 0, late |-> 0, stray |-> FALSE,
     initCalls |-> <<>>, lookups |-> {}, unresolved |-> FALSE]

NoErr == [ex |-> "nil"]

NewRuntimeError(token, message) ==
    [ex |-> "RuntimeError", token |-> token, message |-> message]

BreakException == [ex |-> "BreakException"]

ReturnException(value) == [ex |-> "ReturnException", value |-> value]

(***************************************************************************)
(* Environment.  A frame is [enclosing, values]; enclosing is 0 for the    *)
(* root; a cell of values is [init, value], init FALSE for a name that is  *)
(* declared but has no value yet.                                          *)
(***************************************************************************)
NewEnvironment(h, outer) ==
    [h |-> [h EXCEPT !.envs = Append(@, [enclosing |-> outer,
                                         values |-> EmptyMap])],
     env |-> Len(h.envs) + 1]

\* The frame `distance` hops up from env; the walk stops at the root when
\* the chain is shorter, and distance -1 walks to the root.
RECURSIVE ancestor(_, _, _)
ancestor(h, env, distance) ==
    IF distance = 0 \/ h.envs[env].enclosing = 0 THEN env
    ELSE ancestor(h, h.envs[env].enclosing,
                  IF distance < 0 THEN distance ELSE distance - 1)

Environment_Declare(h, env, name) ==
    [h EXCEPT !.envs[env].values =
        MapPut(@, name.lexeme, [init |-> FALSE, value |-> NewNil])]

Environment_DefineNative(h, env, name, value) ==
    [h EXCEPT !.envs[env].values =
        MapPut(@, name, [init |-> TRUE, value |-> value])]

Environment_Define(h, env, name, value) ==
    Environment_DefineNative(h, env, name.lexeme, value)

Environment_Get(h, env, distance, name) ==
    LET values == h.envs[ancestor(h, env, distance)].values
    IN  IF ~HasKey(values, name.lexeme)
        THEN [val |-> NewNil,
              err |-> NewRuntimeError(name, "undeclared variable '"
                                            \o name.lexeme \o "'")]
        ELSE IF ~values[name.lexeme].init
        THEN [val |-> NewNil,
              err |-> NewRuntimeError(name, "uninitialized variable '"
                                            \o name.lexeme \o "'")]
        ELSE [val |-> values[name.lexeme].value, err |-> NoErr]

\* The value of a name that the interpreter itself defined.
Environment_GetNative(h, env, distance, name) ==
    h.envs[ancestor(h, env, distance)].values[name].value

Environment_Assign(h, env, distance, name, value) ==
    LET target == ancestor(h, env, distance)
    IN  IF ~HasKey(h.envs[target].values, name.lexeme)
        THEN [h |-> h,
              err |-> NewRuntimeError(name, "undeclared variable '"
                                            \o name.lexeme \o "'")]
        ELSE [h |-> [h EXCEPT !.envs[target].values[name.lexeme] =
                                [init |-> TRUE, value |-> value]],
              err |-> NoErr]


(***************************************************************************)
(* Evaluator.  Evaluate returns [h, val, err] and Execute [h, err]: the    *)
(* heap after the call, and the RuntimeException, NoErr standing for nil.  *)
(***************************************************************************)
Value(h, val) == [h |-> h, val |-> val, err |-> NoErr]

Raise(h, err) == [h |-> h, val |-> NewNil, err |-> err]

StmtKinds ==
    {"ExprStmt", "PrintStmt", "VarStmt", "BlockStmt", "IfStmt", "WhileStmt",
     "BreakStmt", "FnStmt", "ReturnStmt", "ClassStmt"}

RECURSIVE Interpret(_, _, _)

\* e.Evaluate(env) on an Expr.
Evaluate(e, env, h) == Interpret(e, env, h)

\* s.Execute(env) on a Stmt.
Execute(s, env, h) == Interpret(s, env, h)

\* A BinaryExpr.Evaluate that tests the type of the left operand only,
\* as with `r, _ := right.(Number)`: a right operand that is no number is
\* taken for the zero Number.
BinaryExpr_Evaluate_LeftOnly(e, env, h) ==
    LET left == Evaluate(e.left, env, h)
    IN  IF left.err # NoErr THEN left ELSE
    LET right == Evaluate(e.right, env, left.h)
    IN  IF right.err # NoErr THEN right ELSE
    LET h2 == right.h
        ty == e.operator.ty
        l == left.val.v
        r == IF Type(right.val) = "TypeNumber" THEN right.val.v
             ELSE IF ty = "Plus" THEN right.val.v ELSE Rat(0, 1)
    IN  IF ty \in {"Minus", "Slash", "Star", "Greater", "GreaterEqual",
                   "Less", "LessEqual"}
        THEN IF Type(left.val) # "TypeNumber"
             THEN Raise(h2, NewRuntimeError(e.operator,
                        e.operator.lexeme \o " operands must be numbers"))
             ELSE CASE ty = "Minus" ->
                        Value(h2, NewNumber(Rat(l[1] * r[2] - r[1] * l[2],
                                                l[2] * r[2])))
                    [] ty = "Slash" ->
                        IF r[1] = 0 /\ Type(right.val) = "TypeNumber"
                        THEN Raise(h2, NewRuntimeError(e.operator,
                                                       "division by zero"))
                        ELSE IF r[1] = 0 THEN Value(h2, NewString("+Inf"))
                        ELSE Value(h2, NewNumber(Rat(l[1] * r[2],
                                                     l[2] * r[1])))
                    [] ty = "Star" ->
                        Value(h2, NewNumber(Rat(l[1] * r[1], l[2] * r[2])))
                    [] ty = "Greater" ->
                        Value(h2, NewBool(l[1] * r[2] > r[1] * l[2]))
                    [] ty = "GreaterEqual" ->
                        Value(h2, NewBool(l[1] * r[2] >= r[1] * l[2]))
                    [] ty = "Less" ->
                        Value(h2, NewBool(l[1] * r[2] < r[1] * l[2]))
                    [] ty = "LessEqual" ->
                        Value(h2, NewBool(l[1] * r[2] =< r[1] * l[2]))
        ELSE CASE ty = "Plus" ->
                    IF Type(left.val) = "TypeNumber"
                       /\ Type(right.val) = "TypeNumber"
                    THEN Value(h2, NewNumber(Rat(l[1] * r[2] + r[1] * l[2],
                                                 l[2] * r[2])))
                    ELSE IF Type(left.val) = "TypeString"
                            \/ Type(right.val) = "TypeString"
                    THEN Value(h2, NewString(String(h2, left.val)
                                             \o String(h2, right.val)))
                    ELSE Raise(h2, NewRuntimeError(e.operator,
                                   "+ operands must be numbers or strings"))
               [] ty = "BangEqual" ->
                    Value(h2, NewBool(~Equal(left.val, right.val)))
               [] ty = "EqualEqual" ->
                    Value(h2, NewBool(Equal(left.val, right.val)))
               [] ty = "Comma" -> Value(h2, right.val)

BinaryExpr_Evaluate(e, env, h) ==
    LET left == Evaluate(e.left, env, h)
    IN  IF left.err # NoErr THEN left ELSE
    LET right == Evaluate(e.right, env, left.h)
    IN  IF right.err # NoErr THEN right ELSE
    LET h2 == right.h
        ty == e.operator.ty
        l == left.val.v
        r == right.val.v
    IN  IF ty \in {"Minus", "Slash", "Star", "Greater", "GreaterEqual",
                   "Less", "LessEqual"}
        THEN IF Type(left.val) # "TypeNumber" \/ Type(right.val) # "TypeNumber"
             THEN Raise(h2, NewRuntimeError(e.operator,
                        e.operator.lexeme \o " operands must be numbers"))
             ELSE CASE ty = "Minus" ->
                        Value(h2, NewNumber(Rat(l[1] * r[2] - r[1] * l[2],
                                                l[2] * r[2])))
                    [] ty = "Slash" ->
                        IF r[1] = 0
                        THEN Raise(h2, NewRuntimeError(e.operator,
                                                       "division by zero"))
                        ELSE Value(h2, NewNumber(Rat(l[1] * r[2],
                                                     l[2] * r[1])))
                    [] ty = "Star" ->
                        Value(h2, NewNumber(Rat(l[1] * r[1], l[2] * r[2])))
                    [] ty = "Greater" ->
                        Value(h2, NewBool(l[1] * r[2] > r[1] * l[2]))
                    [] ty = "GreaterEqual" ->
                        Value(h2, NewBool(l[1] * r[2] >= r[1] * l[2]))
                    [] ty = "Less" ->
                        Value(h2, NewBool(l[1] * r[2] < r[1] * l[2]))
                    [] ty = "LessEqual" ->
                        Value(h2, NewBool(l[1] * r[2] =< r[1] * l[2]))
        ELSE CASE ty = "Plus" ->
                    IF Type(left.val) = "TypeNumber"
                       /\ Type(right.val) = "TypeNumber"
                    THEN Value(h2, NewNumber(Rat(l[1] * r[2] + r[1] * l[2],
                                                 l[2] * r[2])))
                    ELSE IF Type(left.val) = "TypeString"
                            \/ Type(right.val) = "TypeString"
                    THEN Value(h2, NewString(String(h2, left.val)
                                             \o String(h2, right.val)))
                    ELSE Raise(h2, NewRuntimeError(e.operator,
                                   "+ operands must be numbers or strings"))
               [] ty = "BangEqual" ->
                    Value(h2, NewBool(~Equal(left.val, right.val)))
               [] ty = "EqualEqual" ->
                    Value(h2, NewBool(Equal(left.val, right.val)))
               [] ty = "Comma" -> Value(h2, right.val)

UnaryExpr_Evaluate(e, env, h) ==
    LET r == Evaluate(e.right, env, h)
    IN  IF r.err # NoErr THEN r
        ELSE CASE e.operator.ty = "Bang" -> Value(r.h, NewBool(~Bool(r.val)))
               [] e.operator.ty = "Minus" ->
                    IF Type(r.val) # "TypeNumber"
                    THEN Raise(r.h, NewRuntimeError(e.operator,
                                    "unary - operand must be a number"))
                    ELSE Value(r.h, NewNumber(<<-r.val.v[1], r.val.v[2]>>))

TernaryExpr_Evaluate(e, env, h) ==
    LET cond == Evaluate(e.cond, env, h)
    IN  IF cond.err # NoErr THEN cond
        ELSE IF Bool(cond.val) THEN Evaluate(e.left, env, cond.h)
        ELSE Evaluate(e.right, env, cond.h)

\* A lookup by name alone, as of an environment without distances: the
\* innermost frame of the chain that holds the name answers.
RECURSIVE VariableExpr_Evaluate_ByName(_, _, _)
VariableExpr_Evaluate_ByName(e, env, h) ==
    IF HasKey(h.envs[env].values, e.name.lexeme) \/ h.envs[env].enclosing = 0
    THEN LET got == Environment_Get(h, env, 0, e.name)
         IN  [h |-> h, val |-> got.val, err |-> got.err]
    ELSE VariableExpr_Evaluate_ByName(e, h.envs[env].enclosing, h)

VariableExpr_Evaluate(e, env, h) ==
    LET got == Environment_Get(h, env, e.distance, e.name)
    IN  [h |-> h, val |-> got.val, err |-> got.err]

\* An assignment that defines the name in the current frame when the
\* target frame has no cell for it.
AssignExpr_Evaluate_Define(e, env, h) ==
    LET value == Evaluate(e.value, env, h)
    IN  IF value.err # NoErr THEN value ELSE
    LET set == Environment_Assign(value.h, env, e.distance, e.name, value.val)
    IN  IF set.err # NoErr
        THEN Value(Environment_Define(set.h, env, e.name, value.val),
                   value.val)
        ELSE Value(set.h, value.val)

AssignExpr_Evaluate(e, env, h) ==
    LET value == Evaluate(e.value, env, h)
    IN  IF value.err # NoErr THEN value ELSE
    LET set == Environment_Assign(value.h, env, e.distance, e.name, value.val)
    IN  IF set.err # NoErr THEN Raise(set.h, set.err)
        ELSE Value(set.h, value.val)

\* A LogicalExpr.Evaluate that evaluates both operands before it looks at
\* the left one.
LogicalExpr_Evaluate_Eager(e, env, h) ==
    LET left == Evaluate(e.left, env, h)
    IN  IF left.err # NoErr THEN left ELSE
    LET right == Evaluate(e.right, env, left.h)
    IN  IF right.err # NoErr THEN right
        ELSE IF (e.operator.ty = "And") = Bool(left.val) THEN right
        ELSE Value(right.h, left.val)

LogicalExpr_Evaluate(e, env, h) ==
    LET left == Evaluate(e.left, env, h)
    IN  IF left.err # NoErr THEN left
        ELSE CASE e.operator.ty = "And" ->
                    IF Bool(left.val) THEN Evaluate(e.right, env, left.h)
                    ELSE left
               [] e.operator.ty = "Or" ->
                    IF Bool(left.val) THEN left
                    ELSE Evaluate(e.right, env, left.h)

\* name is "nil" for the nil *string of an anonymous function.  The
\* isProperty argument of the five-argument calls is kept in the object.
\* receiver is history: the instance that Bind made the function for.
NewLoxFn(h, name, decl, env, isInit, isProperty) ==
    [h |-> [h EXCEPT !.fns = Append(@, [name |-> name,
                                        declaration |-> decl,
                                        env |-> env, isInit |-> isInit,
                                        isProperty |-> isProperty,
                                        receiver |-> NewNil])],
     val |-> [k |-> "fn", v |-> Len(h.fns) + 1]]

LoxFn_Arity(h, x) == Len(h.fns[x].declaration.parameters)

IsInit(h, x) == h.fns[x].isInit

\* class is the index of the metaclass, superclass that of the superclass,
\* 0 for nil; methods maps a name to the index of its LoxFn.
NewClass(h, class, name, superclass, methods) ==
    [h |-> [h EXCEPT !.classes = Append(@, [class |-> class, name |-> name,
                                            superclass |-> superclass,
                                            methods |-> methods])],
     val |-> [k |-> "class", v |-> Len(h.classes) + 1]]

\* The index of the method, 0 for the nil **LoxFn.
Class_Method(h, x, name) ==
    IF HasKey(h.classes[x].methods, name) THEN h.classes[x].methods[name]
    ELSE 0

Initializer(h, x) == Class_Method(h, x, "init")

Class_Arity(h, x) ==
    IF Initializer(h, x) # 0 THEN LoxFn_Arity(h, Initializer(h, x)) ELSE 0

Class_Class(h, x) == h.classes[x].class

NewInstance(h, class) ==
    [h |-> [h EXCEPT !.instances = Append(@, [class |-> class,
                                              fields |-> EmptyMap])],
     val |-> [k |-> "instance", v |-> Len(h.instances) + 1]]

\* A Bind that defines `this` in the closure frame of the method.
Bind_InPlace(h, x, method) ==
    LET h1 == Environment_DefineNative(h, h.fns[method].env, "this", x)
        fn == NewLoxFn(h1, h.fns[method].name, h.fns[method].declaration,
                       h.fns[method].env, h.fns[method].isInit,
                       h.fns[method].isProperty)
    IN  [fn EXCEPT !.h.fns[fn.val.v].receiver = x]

Bind(h, x, method) ==
    LET ne == NewEnvironment(h, h.fns[method].env)
        h1 == Environment_DefineNative(ne.h, ne.env, "this", x)
        fn == NewLoxFn(h1, h.fns[method].name, h.fns[method].declaration,
                       ne.env, h.fns[method].isInit,
                       h.fns[method].isProperty)
    IN  [fn EXCEPT !.h.fns[fn.val.v].receiver = x]

\* An Instance.Get that looks for a method of the class before it looks
\* at the fields of the instance.
Instance_Get_MethodFirst(h, x, name) ==
    LET fields == h.instances[x.v].fields
        method == Class_Method(h, h.instances[x.v].class, name.lexeme)
    IN  IF method # 0
        THEN LET b == Bind(h, x, method) IN Value(b.h, b.val)
        ELSE IF HasKey(fields, name.lexeme) THEN Value(h, fields[name.lexeme])
        ELSE Raise(h, NewRuntimeError(name, "undefined property '"
                                            \o name.lexeme \o "'"))

Instance_Get(h, x, name) ==
    LET fields == h.instances[x.v].fields
        method == Class_Method(h, h.instances[x.v].class, name.lexeme)
    IN  IF HasKey(fields, name.lexeme) THEN Value(h, fields[name.lexeme])
        ELSE IF method # 0
        THEN LET b == Bind(h, x, method) IN Value(b.h, b.val)
        ELSE Raise(h, NewRuntimeError(name, "undefined property '"
                                            \o name.lexeme \o "'"))

Instance_Set(h, x, name, value) ==
    [h EXCEPT !.instances[x.v].fields = MapPut(@, name.lexeme, value)]

RECURSIVE defineParameters(_, _, _, _)
defineParameters(h, calleeEnv, parameters, args) ==
    IF Len(args) = 0 THEN h
    ELSE defineParameters(
            Environment_Define(h, calleeEnv, Head(parameters), Head(args)),
            calleeEnv, Tail(parameters), Tail(args))

\* The loop of callLoxFn over declaration.body: [h, result, err], err
\* being the exception that is neither nil nor a ReturnException.
RECURSIVE callBody(_, _, _)
callBody(body, calleeEnv, h) ==
    IF Len(body) = 0 THEN Value(h, NewNil)
    ELSE LET r == Execute(Head(body), calleeEnv, h)
         IN  IF r.err = NoErr THEN callBody(Tail(body), calleeEnv, r.h)
             ELSE IF r.err.ex = "ReturnException"
             THEN Value(r.h, r.err.value)
             ELSE Raise(r.h, r.err)

\* A call that runs the body in the frame the function closed over, with
\* no frame of its own.
callLoxFn_NoFrame(e, fn, args, h) ==
    LET decl == h.fns[fn].declaration
        env == h.fns[fn].env
        h1 == defineParameters(h, env, decl.parameters, args)
        result == callBody(decl.body, env, h1)
    IN  IF result.err # NoErr THEN result
        ELSE IF IsInit(h, fn)
        THEN Value(result.h, Environment_GetNative(result.h, env, 0, "this"))
        ELSE result

\* A call that treats an initializer like every other function.
callLoxFn_NoInit(e, fn, args, h) ==
    LET decl == h.fns[fn].declaration
        env == h.fns[fn].env
        ne == NewEnvironment(h, env)
        h1 == defineParameters(ne.h, ne.env, decl.parameters, args)
    IN  callBody(decl.body, ne.env, h1)

callLoxFn(e, fn, args, h) ==
    LET decl == h.fns[fn].declaration
        env == h.fns[fn].env
        ne == NewEnvironment(h, env)
        h1 == defineParameters(ne.h, ne.env, decl.parameters, args)
        result == callBody(decl.body, ne.env, h1)
    IN  IF result.err # NoErr THEN result
        ELSE IF IsInit(h, fn)
        THEN Value(result.h, Environment_GetNative(result.h, env, 0, "this"))
        ELSE result

\* History: initCalls records, for every call of an initializer that ended
\* without an error, the instance it was bound to and the value returned.
LogInit(fn, r) ==
    IF r.err = NoErr /\ IsInit(r.h, fn)
    THEN [r EXCEPT !.h.initCalls =
             Append(@, [receiver |-> r.h.fns[fn].receiver,
                        returned |-> r.val])]
    ELSE r

newInstance(e, class, args, h) ==
    LET instance == NewInstance(h, class)
        initializer == Initializer(h, class)
    IN  IF initializer # 0
        THEN LET b == Bind(instance.h, instance.val, initializer)
             IN  LogInit(b.val.v, callLoxFn(e, b.val.v, args, b.h))
        ELSE Value(instance.h, instance.val)

\* The native function clock of main.go.
clock(h) == Value(h, NewNumber(Rat(h.now, 1)))

\* The loop of CallExpr.Evaluate over e.arguments; val is the args slice.
RECURSIVE evaluateArguments(_, _, _)
evaluateArguments(arguments, env, h) ==
    IF Len(arguments) = 0 THEN Value(h, <<>>)
    ELSE LET arg == Evaluate(Head(arguments), env, h)
         IN  IF arg.err # NoErr THEN arg ELSE
         LET rest == evaluateArguments(Tail(arguments), env, arg.h)
         IN  IF rest.err # NoErr THEN rest
             ELSE Value(rest.h, <<arg.val>> \o rest.val)

Arity(h, callable) ==
    CASE callable.k = "native" -> h.natives[callable.v].arity
      [] callable.k = "fn" -> LoxFn_Arity(h, callable.v)
      [] callable.k = "class" -> Class_Arity(h, callable.v)

\* A CallExpr.Evaluate that makes the two checks of the callee before it
\* evaluates the arguments.
CallExpr_Evaluate_CheckFirst(e, env, h) ==
    LET callee == Evaluate(e.callee, env, h)
    IN  IF callee.err # NoErr THEN callee ELSE
    LET callable == callee.val
    IN  IF callable.k \notin {"native", "fn", "class"}
        THEN Raise(callee.h, NewRuntimeError(e.paren, "value is not callable"))
        ELSE IF Arity(callee.h, callable) # Len(e.arguments)
        THEN Raise(callee.h, NewRuntimeError(e.paren,
                "expected " \o FormatInt(Arity(callee.h, callable))
                \o " arguments but got " \o FormatInt(Len(e.arguments))))
        ELSE
    LET args == evaluateArguments(e.arguments, env, callee.h)
    IN  IF args.err # NoErr THEN args
        ELSE CASE callable.k = "native" -> clock(args.h)
               [] callable.k = "fn" ->
                    LogInit(callable.v,
                            callLoxFn(e, callable.v, args.val, args.h))
               [] callable.k = "class" ->
                    newInstance(e, callable.v, args.val, args.h)

CallExpr_Evaluate(e, env, h) ==
    LET callee == Evaluate(e.callee, env, h)
    IN  IF callee.err # NoErr THEN callee ELSE
    LET args == evaluateArguments(e.arguments, env, callee.h)
    IN  IF args.err # NoErr THEN args ELSE
    LET callable == callee.val
        h2 == args.h
    IN  IF callable.k \notin {"native", "fn", "class"}
        THEN Raise(h2, NewRuntimeError(e.paren, "value is not callable"))
        ELSE IF Arity(h2, callable) # Len(args.val)
        THEN Raise(h2, NewRuntimeError(e.paren,
                "expected " \o FormatInt(Arity(h2, callable))
                \o " arguments but got " \o FormatInt(Len(args.val))))
        ELSE CASE callable.k = "native" -> clock(h2)
               [] callable.k = "fn" ->
                    LogInit(callable.v,
                            callLoxFn(e, callable.v, args.val, h2))
               [] callable.k = "class" ->
                    newInstance(e, callable.v, args.val, h2)

FnExpr_Evaluate(e, env, h) ==
    LET fn == NewLoxFn(h, "nil", e, env, FALSE, FALSE)
    IN  Value(fn.h, fn.val)

GetExpr_Evaluate(e, env, h) ==
    LET object == Evaluate(e.object, env, h)
    IN  IF object.err # NoErr THEN object
        ELSE IF Type(object.val) # "TypeInstance"
        THEN Raise(object.h, NewRuntimeError(e.name,
                                "only instances have properties"))
        ELSE Instance_Get(object.h, object.val, e.name)

\* A SetExpr.Evaluate that evaluates the value before the object, the
\* order in which SetExpr.Resolve visits them.
SetExpr_Evaluate_ValueFirst(e, env, h) ==
    LET value == Evaluate(e.value, env, h)
    IN  IF value.err # NoErr THEN value ELSE
    LET object == Evaluate(e.object, env, value.h)
    IN  IF object.err # NoErr THEN object
        ELSE IF Type(object.val) # "TypeInstance"
        THEN Raise(object.h, NewRuntimeError(e.name,
                                "only instances have properties"))
        ELSE Value(Instance_Set(object.h, object.val, e.name, value.val),
                   value.val)

SetExpr_Evaluate(e, env, h) ==
    LET object == Evaluate(e.object, env, h)
    IN  IF object.err # NoErr THEN object
        ELSE IF Type(object.val) # "TypeInstance"
        THEN Raise(object.h, NewRuntimeError(e.name,
                                "only instances have properties"))
        ELSE LET value == Evaluate(e.value, env, object.h)
             IN  IF value.err # NoErr THEN value
                 ELSE Value(Instance_Set(value.h, object.val, e.name,
                                         value.val),
                            value.val)

ThisExpr_Evaluate(e, env, h) ==
    LET got == Environment_Get(h, env, e.distance, e.keyword)
    IN  [h |-> h, val |-> got.val, err |-> got.err]


ExprStmt_Execute(s, env, h) ==
    LET r == Evaluate(s.expression, env, h)
    IN  [h |-> r.h, err |-> r.err]

\* fmt.Println appends one line to stdout.
PrintStmt_Execute(s, env, h) ==
    LET val == Evaluate(s.expression, env, h)
    IN  IF val.err # NoErr THEN [h |-> val.h, err |-> val.err]
        ELSE [h |-> [val.h EXCEPT !.stdout =
                        Append(@, String(val.h, val.val))],
              err |-> NoErr]

\* A declaration without initializer that defines the name as nil.
VarStmt_Execute_Nil(s, env, h) ==
    LET value == IF s.initializer = NoNode THEN Value(h, NewNil)
                 ELSE Evaluate(s.initializer, env, h)
    IN  IF value.err # NoErr THEN [h |-> value.h, err |-> value.err]
        ELSE [h |-> Environment_Define(value.h, env, s.name, value.val),
              err |-> NoErr]

VarStmt_Execute(s, env, h) ==
    IF s.initializer = NoNode
    THEN [h |-> Environment_Declare(h, env, s.name), err |-> NoErr]
    ELSE LET value == Evaluate(s.initializer, env, h)
         IN  IF value.err # NoErr THEN [h |-> value.h, err |-> value.err]
             ELSE [h |-> Environment_Define(value.h, env, s.name, value.val),
                   err |-> NoErr]

\* A loop over s.statements that keeps the first error but does not return
\* on it: the statements after the failing one are executed too.
RECURSIVE executeStatements_Continue(_, _, _)
executeStatements_Continue(statements, innerEnv, h) ==
    IF Len(statements) = 0 THEN [h |-> h, err |-> NoErr]
    ELSE LET r == Execute(Head(statements), innerEnv, h)
             rest == executeStatements_Continue(Tail(statements), innerEnv,
                                                r.h)
         IN  IF r.err # NoErr THEN [h |-> rest.h, err |-> r.err] ELSE rest

\* The loop of BlockStmt.Execute over s.statements.
RECURSIVE executeStatements(_, _, _)
executeStatements(statements, innerEnv, h) ==
    IF Len(statements) = 0 THEN [h |-> h, err |-> NoErr]
    ELSE LET r == Execute(Head(statements), innerEnv, h)
         IN  IF r.err # NoErr THEN r
             ELSE executeStatements(Tail(statements), innerEnv, r.h)

\* A BlockStmt.Execute that runs the statements in the frame of the block's
\* surroundings.
BlockStmt_Execute_NoFrame(s, env, h) ==
    executeStatements(s.statements, env, h)

BlockStmt_Execute(s, env, h) ==
    LET innerEnv == NewEnvironment(h, env)
    IN  executeStatements(s.statements, innerEnv.env, innerEnv.h)

IfStmt_Execute(s, env, h) ==
    LET val == Evaluate(s.condition, env, h)
    IN  IF val.err # NoErr THEN [h |-> val.h, err |-> val.err]
        ELSE IF Bool(val.val) THEN Execute(s.thenBranch, env, val.h)
        ELSE IF s.elseBranch # NoNode THEN Execute(s.elseBranch, env, val.h)
        ELSE [h |-> val.h, err |-> NoErr]

\* The nodes written inside node n, a nested loop's body left out.
Children(n) ==
    CASE n.kind \in {"Binary", "Logical"} -> <<n.left, n.right>>
      [] n.kind \in {"Grouping", "ExprStmt", "PrintStmt"} -> <<n.expression>>
      [] n.kind = "Unary" -> <<n.right>>
      [] n.kind = "Ternary" -> <<n.cond, n.left, n.right>>
      [] n.kind = "Assign" -> <<n.value>>
      [] n.kind = "Call" -> <<n.callee>> \o n.arguments
      [] n.kind = "Fn" -> n.body
      [] n.kind = "Get" -> <<n.object>>
      [] n.kind = "Set" -> <<n.object, n.value>>
      [] n.kind = "VarStmt" -> <<n.initializer>>
      [] n.kind = "BlockStmt" -> n.statements
      [] n.kind = "IfStmt" -> <<n.condition, n.thenBranch, n.elseBranch>>
      [] n.kind = "WhileStmt" -> <<n.condition>>
      [] n.kind \in {"FnStmt", "MethodStmt"} -> <<n.function>>
      [] n.kind = "ReturnStmt" -> <<n.value>>
      [] n.kind = "ClassStmt" -> n.methods \o n.classMethods
      [] OTHER -> <<>>

\* History: whether a break statement is written inside n for which no
\* loop inside n is the nearest enclosing one.  A loop that catches a
\* BreakException although OwnsBreak is false of its body has been ended
\* by a break statement that it does not enclose.
RECURSIVE OwnsBreak(_)
OwnsBreak(n) ==
    \/ n.kind = "BreakStmt"
    \/ \E i \in 1..Len(Children(n)) : OwnsBreak(Children(n)[i])

\* One turn of the `for` of WhileStmt.Execute, then the turns after it.
RECURSIVE WhileStmt_Execute(_, _, _)
WhileStmt_Execute(s, env, h) ==
    LET val == Evaluate(s.condition, env, h)
    IN  IF val.err # NoErr THEN [h |-> val.h, err |-> val.err]
        ELSE IF ~Bool(val.val) THEN [h |-> val.h, err |-> NoErr]
        ELSE LET r == Execute(s.body, env, val.h)
             IN  IF r.err = NoErr THEN WhileStmt_Execute(s, env, r.h)
                 ELSE IF r.err.ex = "BreakException"
                 THEN [h |-> [r.h EXCEPT !.stray = @ \/ ~OwnsBreak(s.body)],
                       err |-> NoErr]
                 ELSE r

BreakStmt_Execute(s, env, h) == [h |-> h, err |-> BreakException]

FnStmt_Execute(s, env, h) ==
    LET fn == NewLoxFn(h, s.name.lexeme, s.function, env, FALSE, FALSE)
    IN  [h |-> Environment_Define(fn.h, env, s.name, fn.val), err |-> NoErr]

ReturnStmt_Execute(s, env, h) ==
    IF s.value = NoNode THEN [h |-> h, err |-> ReturnException(NewNil)]
    ELSE LET value == Evaluate(s.value, env, h)
         IN  IF value.err # NoErr THEN [h |-> value.h, err |-> value.err]
             ELSE [h |-> value.h, err |-> ReturnException(value.val)]

\* The loops of ClassStmt.Execute that build a method table in env; isMeta
\* tells the one of the metaclass, whose functions are never initializers.
RECURSIVE makeMethods(_, _, _, _, _)
makeMethods(h, methods, env, isMeta, table) ==
    IF Len(methods) = 0 THEN [h |-> h, val |-> table]
    ELSE LET method == Head(methods)
             name == method.name.lexeme
             fn == NewLoxFn(h, name, method.function, env,
                            ~isMeta /\ name = "init", method.isProperty)
         IN  makeMethods(fn.h, Tail(methods), env, isMeta,
                         MapPut(table, name, fn.val.v))

\* The environment the methods of a class close over: with a superclass, a
\* new one that holds it as 'super'.
superEnvironment(h, env, hasSuper, superclass) ==
    IF hasSuper
    THEN LET ne == NewEnvironment(h, env)
         IN  [h |-> Environment_DefineNative(ne.h, ne.env, "super",
                        [k |-> "class", v |-> superclass]),
              env |-> ne.env]
    ELSE [h |-> h, env |-> env]

ClassStmt_Execute(s, env, h) ==
    LET hasSuper == s.superclass # NoNode
        super == IF hasSuper THEN Evaluate(s.superclass, env, h)
                 ELSE Value(h, NewNil)
    IN  IF super.err # NoErr THEN [h |-> super.h, err |-> super.err]
        ELSE IF hasSuper /\ Type(super.val) # "TypeClass"
        THEN [h |-> super.h,
              err |-> NewRuntimeError(s.superclass.name,
                                      "superclass must be a class")]
        ELSE
    LET superclass == IF hasSuper THEN super.val.v ELSE 0
        supermetaclass == IF hasSuper THEN Class_Class(super.h, super.val.v)
                          ELSE 0
        h1 == Environment_Declare(super.h, env, s.name)
        metaEnv == superEnvironment(h1, env, hasSuper, supermetaclass)
        classMethods == makeMethods(metaEnv.h, s.classMethods, metaEnv.env,
                                    TRUE, EmptyMap)
        metaclass == NewClass(classMethods.h, 0, s.name.lexeme \o " metaclass",
                              supermetaclass, classMethods.val)
        classEnv == superEnvironment(metaclass.h, env, hasSuper, superclass)
        methods == makeMethods(classEnv.h, s.methods, classEnv.env, FALSE,
                               EmptyMap)
        class == NewClass(methods.h, metaclass.val.v, s.name.lexeme,
                          superclass, methods.val)
    IN  [h |-> Environment_Define(class.h, env, s.name, class.val),
         err |-> NoErr]

\* History: a call that starts after a runtime error was raised in the
\* same run is counted in late; the error a call returns sets raised.
Enter(h, isStmt) ==
    [h EXCEPT !.executed = IF isStmt THEN @ + 1 ELSE @,
              !.late = IF h.raised THEN @ + 1 ELSE @]

Leave(r) ==
    IF r.err.ex = "RuntimeError" THEN [r EXCEPT !.h.raised = TRUE] ELSE r

\* The frame distance links up from env exists and holds a cell for name.
RECURSIVE Holds(_, _, _, _)
Holds(h, env, distance, name) ==
    IF distance = 0 THEN HasKey(h.envs[env].values, name)
    ELSE /\ h.envs[env].enclosing # 0
         /\ Holds(h, h.envs[env].enclosing, distance - 1, name)

\* History: a reference with a depth of zero or more that reached its lookup
\* (it returned no error, or the error is its own) is recorded in lookups,
\* and in unresolved when the frame or the cell is missing.
Track(n, env, r) ==
    IF n.kind \notin {"Variable", "Assign", "This"} THEN r ELSE
    LET name == IF n.kind = "This" THEN n.keyword ELSE n.name
    IN  IF n.distance < 0 THEN r
        ELSE IF ~(r.err = NoErr
                    \/ (r.err.ex = "RuntimeError" /\ r.err.token = name))
        THEN r
        ELSE [r EXCEPT !.h.lookups = @ \cup {<<n.kind, n.distance>>},
                       !.h.unresolved =
                           @ \/ ~Holds(r.h, env, n.distance, name.lexeme)]

\* The interface dispatch of e.Evaluate(env) and s.Execute(env): the dynamic
\* type of the node selects the method.
Interpret(n, env, h0) ==
    LET h == Enter(h0, n.kind \in StmtKinds)
    IN  Track(n, env, Leave(
        CASE n.kind = "Binary" -> BinaryExpr_Evaluate(n, env, h)
          [] n.kind = "Grouping" -> Evaluate(n.expression, env, h)
          [] n.kind = "Literal" -> Value(h, n.value)
          [] n.kind = "Unary" -> UnaryExpr_Evaluate(n, env, h)
          [] n.kind = "Ternary" -> TernaryExpr_Evaluate(n, env, h)
          [] n.kind = "Variable" -> VariableExpr_Evaluate(n, env, h)
          [] n.kind = "Assign" -> AssignExpr_Evaluate(n, env, h)
          [] n.kind = "Logical" -> LogicalExpr_Evaluate(n, env, h)
          [] n.kind = "Call" -> CallExpr_Evaluate(n, env, h)
          [] n.kind = "Fn" -> FnExpr_Evaluate(n, env, h)
          [] n.kind = "Get" -> GetExpr_Evaluate(n, env, h)
          [] n.kind = "Set" -> SetExpr_Evaluate(n, env, h)
          [] n.kind = "This" -> ThisExpr_Evaluate(n, env, h)
          [] n.kind = "ExprStmt" -> ExprStmt_Execute(n, env, h)
          [] n.kind = "PrintStmt" -> PrintStmt_Execute(n, env, h)
          [] n.kind = "VarStmt" -> VarStmt_Execute(n, env, h)
          [] n.kind = "BlockStmt" -> BlockStmt_Execute(n, env, h)
          [] n.kind = "IfStmt" -> IfStmt_Execute(n, env, h)
          [] n.kind = "WhileStmt" -> WhileStmt_Execute(n, env, h)
          [] n.kind = "BreakStmt" -> BreakStmt_Execute(n, env, h)
          [] n.kind = "FnStmt" -> FnStmt_Execute(n, env, h)
          [] n.kind = "ReturnStmt" -> ReturnStmt_Execute(n, env, h)
          [] n.kind = "ClassStmt" -> ClassStmt_Execute(n, env, h)))


(***************************************************************************)
(* The inputs the interpreter is started on.                               *)
(***************************************************************************)
File(source) == [mode |-> "file", lines |-> <<source>>, now |-> 0]

Prompt(lines) == [mode |-> "prompt", lines |-> lines, now |-> 0]

RECURSIVE Repeat(_, _)
Repeat(text, n) == IF n = 0 THEN "" ELSE text \o Repeat(text, n - 1)

\* The largest number of calls of one closure, and the largest reading of
\* the clock in seconds.
MaxCalls == 3

MaxClock == 1

\* Scenario 2 of the specification, and the same with the block's `a` read.
ScopeProgram ==
    "var a = \"global\"; { fun show() { print a; } show(); "
    \o "var a = \"local\"; show(); }"

ScopeProgramUsed ==
    "var a = \"global\"; { fun show() { print a; } show(); "
    \o "var a = \"local\"; show(); print a; }"

\* One error for each stage of the pipeline.
ScanErrorProgram == "print 1; @ print 2;"

ParseErrorProgram == "print 1; print ;"

ResolveErrorProgram == "print 1; return 2;"

\* A function with a break in its body, declared in a loop and called
\* after that loop has ended: outside every loop, and inside another loop.
EscapedBreakProgram ==
    "var f; while (true) { fun g() { break; } f = g; break; } f(); print 1;"

StrayBreakProgram ==
    "var f; while (true) { fun g() { break; } f = g; break; } "
    \o "var i = 0; while (i < 2) { i = i + 1; f(); print i; } print \"end\";"

NestedBreakProgram ==
    "var i = 0; while (i < 2) { i = i + 1; var j = 0; "
    \o "while (true) { j = j + 1; if (j > 1) break; print j; } print i; } "
    \o "print \"end\";"

ForBreakProgram ==
    "for (var i = 0; i < 3; i = i + 1) { if (i == 1) break; print i; } "
    \o "print \"end\";"

ReturnProgram ==
    "fun f() { while (true) { { return 7; } } } print f(); print \"after\";"

\* A runtime error at top level, in a block and in a function body.
TopLevelErrorProgram == "print 1; print -\"a\"; print 2;"

BlockErrorProgram == "{ print 1; print 1 / 0; print 2; } print 3;"

FunctionErrorProgram == "fun f() { print 1; nil(); print 2; } f(); print 3;"

\* Two closures over two calls of make; the first is called n times.
CounterProgram(n) ==
    "fun make() { var c = 0; fun inc() { c = c + 1; return c; } return inc; } "
    \o "var a = make(); var b = make(); "
    \o Repeat("print a(); ", n) \o "print b();"

InitProgram ==
    "class A { init(x) { this.x = x; } } "
    \o "var a = A(1); print a.init(2) == a; print a.x;"

InitReturnProgram ==
    "class B { init(x) { this.x = x; return; } } "
    \o "var b = B(1); print b.init(2) == b; print b.x; print B(3).x;"

InitErrorProgram == "class C { init() { this.x = y; } } print C();"

\* `var x;`, an assignment of the literal written in text, and a read.
Literals == {"1", "\"s\"", "nil", "true"}

UninitializedProgram == "var x; print x;"

InitializedProgram(text) == "var x; x = " \o text \o "; print x;"

UninitializedLocalProgram == "{ var x; print x; }"

InitializedLocalProgram(text) == "{ var x; x = " \o text \o "; print x; }"

AssignPrograms ==
    {"y = 1;", "print y = 1;", "var z = 0; { z = 1; y = 2; } print z;",
     "fun f() { y = 1; } f();", "{ y = 1; var y = 2; print y; }"}

GlobalDuplicateProgram == "var a = 1; var a = 2; print a;"

LocalDuplicateProgram == "{ var b = 1; var b = 2; print b; }"

ParameterDuplicateProgram == "fun f(p, p) { print p; } f(1, 2);"

ClockProgram == "print clock() >= 0; print clock;"

\* Locals that are read, assigned only, never used, and named with `_`;
\* an unused parameter and an unused global.
UnusedProgram ==
    "{ var u = 1; var w = 2; var _x = 3; var v = 4; print v; } print 5;"

UnderscoreProgram == "{ var _u = 1; } print 1;"

AssignedOnlyProgram == "{ var s; s = 1; } print 1;"

UnusedParameterProgram == "fun f(q) { print 1; } f(2);"

UnusedGlobalProgram == "var g = 1; fun k() { var m = 2; } print 2;"

\* A read of a name in its own initializer, in a block, at top level and
\* over a global of the same name; a read of a defined name; and a read,
\* in a function body, of the name whose initializer the function is.
OwnInitializerProgram == "{ var a = a; } print 1;"

GlobalOwnInitializerProgram == "var a = a; print 1;"

ShadowInitializerProgram == "var a = 1; { var a = a; print a; }"

DefinedReadProgram == "var a = 1; { var b = a; print b; }"

PendingOuterProgram == "{ var a = fun () { return a; }; print 1; }"

\* A return with a value in an initializer, in a function nested in an
\* initializer, and at top level after a function.
InitValueReturnProgram == "class A { init() { return 1; } } print A();"

NestedReturnProgram ==
    "class C { init() { fun f() { return 1; } this.x = f(); } } print C().x;"

ReturnAfterFunctionProgram == "fun f() { return 1; } print f(); return;"

\* `this` at top level, in a function, in a function nested in a method,
\* and directly in an initializer, a method and a class-method.
ThisTopLevelProgram == "print this;"

ThisFunctionProgram == "fun f() { print this; } f();"

ThisNestedFunctionProgram ==
    "class A { m() { fun f() { print this; } f(); } } A().m();"

ThisMethodProgram ==
    "class A { init() { this.x = 1; } m() { return this.x; } "
    \o "class make() { return this; } } print A().m();"

ResolverPrograms ==
    {UnusedProgram, UnderscoreProgram, AssignedOnlyProgram,
     UnusedParameterProgram, UnusedGlobalProgram,
     OwnInitializerProgram, GlobalOwnInitializerProgram,
     ShadowInitializerProgram, DefinedReadProgram, PendingOuterProgram,
     InitValueReturnProgram, NestedReturnProgram, ReturnAfterFunctionProgram,
     ThisTopLevelProgram, ThisFunctionProgram, ThisNestedFunctionProgram,
     ThisMethodProgram}

\* The values of `or` and `and`, and an assignment as their right operand.
LogicalValueProgram ==
    "print 1 or 2; print nil or \"b\"; print false or nil; "
    \o "print nil and 1; print 1 and 2; print 0 and false;"

LogicalEffectProgram ==
    "var x = 0; true or (x = 1); false and (x = 2); print x; "
    \o "false or (x = 3); print x; true and (x = 4); print x;"

\* A function that prints its argument when it is evaluated, as operand
\* of a Binary, as callee and argument of a Call, and as value of a Set;
\* then the same with a runtime error between the calls.
OrderPrelude == "fun p(x) { print x; return x; } "

BinaryOrderProgram == OrderPrelude \o "p(1) + p(2); p(3) < p(4);"

CallOrderProgram ==
    OrderPrelude \o "fun g(_a, _b) { print 9; } "
    \o "fun c() { print 0; return g; } c()(p(1), p(2));"

SetOrderProgram ==
    OrderPrelude \o "class O {} var o = O(); "
    \o "fun q() { print 0; return o; } q().f = p(3); print o.f;"

BinaryErrorProgram == OrderPrelude \o "p(1) + -nil + p(2);"

CallErrorProgram == OrderPrelude \o "p(1)(p(2), -nil, p(3));"

SetErrorProgram == OrderPrelude \o "(-nil).f = p(1);"

\* The operators that take numbers only, on every pair of Operands.
NumericOperators == {"-", "*", "/", "<", "<=", ">", ">="}

Numerals == {"2", "0"}

Operands == Numerals \cup {"nil", "\"s\""}

OperatorProgram(l, op, r) == "print " \o l \o " " \o op \o " " \o r \o ";"

OperatorPrograms ==
    {OperatorProgram(l, op, r) : l \in Operands, r \in Operands,
                                op \in NumericOperators}

\* A method m that reads this.v, a field m set on one instance of the
\* class, the method called on another instance, and a name that is
\* neither field nor method.
FieldShadowProgram ==
    "class A { m() { return this.v; } } var a = A(); a.v = 1; "
    \o "print a.m(); a.m = 2; print a.m; "
    \o "var b = A(); b.v = 5; print b.m(); print a.q;"

\* A break outside every loop: alone, after a loop, and after a while and
\* a for loop whose body is a parse error.
BreakTopLevelProgram == "print 1; break;"

BreakAfterLoopProgram == "while (false) { break; } break; print 1;"

BreakAfterWhileErrorProgram == "while (true) print ; break;"

BreakAfterForErrorProgram == "for (;;) print ; break;"

\* A block comment with a comment nested in it and a statement between
\* the inner and the outer */, then one nested twice that the next
\* statement follows at once.
NestedCommentProgram ==
    "print 1; /* a /* b */ print 2; */print 3; /*/* /**/ */ x */print 4;"

\* A parse error at a `;`, at a token that a `var` follows, and at a
\* `print` that starts the next statement.
RecoverySemicolonProgram == "print 1; print ; print 2;"

RecoveryKeywordProgram == "print 1; print 2 3 var x; print 4;"

MissingSemicolonProgram == "print 1 print 2; print 3;"

\* Blanks inside a string and a comment and between tokens; a newline
\* inside a string; a newline inside a block comment; a block comment
\* that the source does not end.
BlanksProgram == "print \"a b\"; // c d\nprint 1.5 ;\tprint\r\n2;"

StringNewlineProgram == "print \"a\nb\";\nprint 2;"

CommentNewlineProgram == "/* a\nb */ print 3;\nprint 4;"

OpenCommentProgram == "print 5; /* a /* b */ c"

ScannerPrograms ==
    {BlanksProgram, StringNewlineProgram, CommentNewlineProgram,
     OpenCommentProgram}

ParserPrograms ==
    {BreakTopLevelProgram, BreakAfterLoopProgram,
     BreakAfterWhileErrorProgram, BreakAfterForErrorProgram,
     NestedCommentProgram, RecoverySemicolonProgram, RecoveryKeywordProgram,
     MissingSemicolonProgram}

\* Calls with two printing arguments of a value that is not callable, and
\* of a function and a class that take one argument.
NotCallableProgram == OrderPrelude \o "nil(p(1), p(2)); print 3;"

FunctionArityProgram ==
    OrderPrelude \o "fun g(_a) { print 9; } g(p(1), p(2)); print 3;"

ClassArityProgram ==
    OrderPrelude \o "class K { init(_a) { print 9; } } K(p(1), p(2));"

\* One method bound to the instance a and then to the instance b, and the
\* two bound methods called after both exist.
BindProgram ==
    "class A { get() { return this.n; } } var a = A(); a.n = 1; "
    \o "var b = A(); b.n = 2; var f = a.get; var g = b.get; "
    \o "print f(); print g(); print f();"

EvaluatorPrograms ==
    {LogicalValueProgram, LogicalEffectProgram, BinaryOrderProgram,
     CallOrderProgram, SetOrderProgram, BinaryErrorProgram,
     CallErrorProgram, SetErrorProgram, FieldShadowProgram,
     NotCallableProgram, FunctionArityProgram, ClassArityProgram,
     BindProgram}

\* References that look past the frames of a class: a global read from a
\* method of a class with a superclass, a global assigned from a method of
\* a class without one, and `this` read inside a for loop of a method.
SuperclassReferenceProgram ==
    "var g = 1; class A { } class B < A { get() { return g; } } "
    \o "print B().get();"

ClassReferenceProgram ==
    "var g = 1; class B { get() { g = 2; return this; } } B().get(); print g;"

LoopReferenceProgram ==
    "class C { get() { for (var i = 0; i < 1; ) { return this; } } } "
    \o "C().get();"

\* Under two blocks, a read of a local of the outer block, of a global
\* and of a native.
DepthsProgram == "var g = 1; { var a = 2; { print a + g; print clock; } }"

ReferencePrograms ==
    {SuperclassReferenceProgram, ClassReferenceProgram, LoopReferenceProgram,
     DepthsProgram}

Sessions ==
    {<<"var x = 1;", "x + 1", "print x;", "x = ;", "x">>,
     <<"this", "1 +", "\"abc", "nil()", "\"abc\"">>,
     <<"var y;", "y", "y = 2", "{ var y = y; }", "z = 1">>,
     <<"var clock = 1;", "clock", "var v = 2;", "v = ;", "v">>}

Inputs ==
    {File(source) : source \in
        {ScopeProgram, ScopeProgramUsed, ScanErrorProgram, ParseErrorProgram,
         ResolveErrorProgram, EscapedBreakProgram, StrayBreakProgram,
         NestedBreakProgram, ForBreakProgram, ReturnProgram,
         TopLevelErrorProgram, BlockErrorProgram, FunctionErrorProgram,
         InitProgram, InitReturnProgram, InitErrorProgram,
         UninitializedProgram, UninitializedLocalProgram,
         GlobalDuplicateProgram, LocalDuplicateProgram,
         ParameterDuplicateProgram}}
    \cup {File(CounterProgram(n)) : n \in 1..MaxCalls}
    \cup {File(InitializedProgram(text)) : text \in Literals}
    \cup {File(InitializedLocalProgram(text)) : text \in Literals}
    \cup {File(source) : source \in AssignPrograms}
    \cup {File(source) : source \in ResolverPrograms}
    \cup {File(source) : source \in EvaluatorPrograms}
    \cup {File(source) : source \in ParserPrograms}
    \cup {File(source) : source \in ScannerPrograms}
    \cup {File(source) : source \in ReferencePrograms}
    \cup {File(source) : source \in OperatorPrograms}
    \cup {[File(ClockProgram) EXCEPT !.now = t] : t \in 0..MaxClock}
    \cup {Prompt(lines) : lines \in Sessions}

(***************************************************************************)
(* The driver of main.go.  input is what the process is started on: the    *)
(* mode, the text of the file or the lines typed at the prompt, and the    *)
(* reading of the clock.  pc is the position in main, runFile, runPrompt   *)
(* and run.  stderr holds the errors handed to fmt.Fprintf(os.Stderr).     *)
(* stages is history: the stages that run has invoked in the current run.  *)
(***************************************************************************)
VARIABLES input, lineNo, pc, scanner, parser, stmts, expr, resolver, next,
          h, stderr, ok, exitCode, stages

vars == <<input, lineNo, pc, scanner, parser, stmts, expr, resolver, next,
          h, stderr, ok, exitCode, stages>>

\* The root frame, made by NewEnvironment(nil) in runFile and runPrompt.
GlobalEnv == 1

allowExpr == input.mode = "prompt"

\* A run that takes every error list for an empty one.
HasErrors_Never(errs) == FALSE

\* `len(errs) > 0`
HasErrors(errs) == Len(errs) > 0

Init ==
    /\ input \in Inputs
    /\ lineNo = 0
    /\ pc = "main"
    /\ scanner = NewScanner("")
    /\ parser = NewParser(<<>>)
    /\ stmts = <<>>
    /\ expr = NoNode
    /\ resolver = NewResolver
    /\ next = 0
    /\ h = NewHeap(input.now)
    /\ stderr = <<>>
    /\ ok = TRUE
    /\ exitCode = -1
    /\ stages = {}

\* The entry of run(source, env, allowExpr): NewScanner and the call of
\* ScanTokens.  The history fields of the heap start afresh.
Run(source, heap) ==
    /\ scanner' = NewScanner(source)
    /\ parser' = NewParser(<<>>)
    /\ stmts' = <<>>
    /\ expr' = NoNode
    /\ resolver' = NewResolver
    /\ next' = 0
    /\ h' = [heap EXCEPT !.raised = FALSE, !.executed = 0, !.late = 0,
                         !.stray = FALSE, !.initCalls = <<>>,
                         !.lookups = {}, !.unresolved = FALSE]
    /\ stages' = {"ScanTokens"}
    /\ pc' = "ScanTokens"

\* `return false` and `return true` of run.
Return(result) ==
    /\ ok' = result
    /\ pc' = "returned"

runFile ==
    /\ pc = "main"
    /\ input.mode = "file"
    /\ lineNo' = 1
    /\ Run(input.lines[1], NewEnvironment(h, 0).h)
    /\ UNCHANGED <<input, stderr, ok, exitCode>>

runFileExit ==
    /\ pc = "returned"
    /\ input.mode = "file"
    /\ pc' = "exit"
    /\ exitCode' = IF ~ok THEN 65 ELSE 0
    /\ UNCHANGED <<input, expr, lineNo, scanner, parser, stmts, resolver, next,
                   h, stderr, ok, stages>>

runPrompt ==
    /\ pc = "main"
    /\ input.mode = "prompt"
    /\ pc' = "prompt"
    /\ h' = NewEnvironment(h, 0).h
    /\ UNCHANGED <<input, expr, lineNo, scanner, parser, stmts, resolver,
                   next, stderr, ok, exitCode, stages>>

\* One turn of the loop of runPrompt: a line is read and run, or the input
\* has ended and main returns.
runPromptLine ==
    /\ pc \in {"prompt", "returned"}
    /\ input.mode = "prompt"
    /\ IF lineNo < Len(input.lines)
       THEN /\ lineNo' = lineNo + 1
            /\ Run(input.lines[lineNo + 1], h)
            /\ UNCHANGED <<input, stderr, ok, exitCode>>
       ELSE /\ pc' = "exit"
            /\ exitCode' = 0
            /\ UNCHANGED <<input, expr, lineNo, scanner, parser, stmts,
                           resolver, next, h, stderr, ok, stages>>

\* One turn of the loop of ScanTokens.
ScanTokens ==
    /\ pc = "ScanTokens"
    /\ ~Scanner_isAtEnd(scanner)
    /\ scanner' = scanToken([scanner EXCEPT !.start = scanner.current])
    /\ UNCHANGED <<input, expr, lineNo, pc, parser, stmts, resolver, next,
                   h, stderr, ok, exitCode, stages>>

\* The end of ScanTokens and what run does with its result.
ScanTokensReturn ==
    /\ pc = "ScanTokens"
    /\ Scanner_isAtEnd(scanner)
    /\ LET tokens == Append(scanner.tokens, EOFToken(scanner))
           errs == scanner.errors
       IN  /\ scanner' = [scanner EXCEPT !.tokens = tokens]
           /\ IF HasErrors(errs)
              THEN /\ stderr' = stderr \o errs
                   /\ Return(FALSE)
                   /\ UNCHANGED <<parser, h, stages>>
              ELSE /\ h' = Environment_DefineNative(
                              [h EXCEPT !.natives =
                                  Append(@, [arity |-> 0, name |-> "clock"])],
                              GlobalEnv, "clock",
                              [k |-> "native", v |-> Len(h.natives) + 1])
                   /\ parser' = NewParser(tokens)
                   /\ stages' = stages \cup {"ParseStatements"}
                   /\ pc' = "ParseStatements"
                   /\ UNCHANGED <<stderr, ok>>
    /\ UNCHANGED <<input, expr, lineNo, stmts, resolver, next, exitCode>>

\* One turn of the loop of ParseStatements.
ParseStatements ==
    /\ pc = "ParseStatements"
    /\ ~Parser_isAtEnd(parser)
    /\ LET Store(decl) ==
               /\ parser' = decl.p
               /\ stmts' = IF decl.node # NoNode THEN Append(stmts, decl.node)
                           ELSE stmts
       IN  Store(parseStatement(parser))
    /\ UNCHANGED <<input, expr, lineNo, pc, scanner, resolver, next, h, stderr,
                   ok, exitCode, stages>>


\* The end of ParseStatements and what run does with its result.
ParseStatementsReturn ==
    /\ pc = "ParseStatements"
    /\ Parser_isAtEnd(parser)
    /\ IF HasErrors(parser.errors)
       THEN IF allowExpr
            THEN /\ stages' = stages \cup {"ParseExpression"}
                 /\ pc' = "ParseExpression"
                 /\ UNCHANGED <<resolver, next, stderr, ok>>
            ELSE /\ stderr' = stderr \o parser.errors
                 /\ Return(FALSE)
                 /\ UNCHANGED <<resolver, next, stages>>
       ELSE /\ resolver' = NewResolver
            /\ next' = 1
            /\ stages' = stages \cup {"ResolveStatements"}
            /\ pc' = "ResolveStatements"
            /\ UNCHANGED <<stderr, ok>>
    /\ UNCHANGED <<input, expr, lineNo, scanner, parser, stmts, h, exitCode>>

\* The second parser of run, on the same tokens; parser keeps the errors
\* of the statement parser, which run prints when this one fails too.
ParseExpressionReturn ==
    /\ pc = "ParseExpression"
    /\ LET Store(parsed) ==
               IF ~HasErrors(parsed.errors)
               THEN /\ expr' = parsed.expr
                    /\ resolver' = NewResolver
                    /\ stages' = stages \cup {"ResolveExpression"}
                    /\ pc' = "ResolveExpression"
                    /\ UNCHANGED <<stderr, ok>>
               ELSE /\ stderr' = stderr \o parser.errors
                    /\ Return(FALSE)
                    /\ UNCHANGED <<expr, resolver, stages>>
       IN  Store(ParseExpression(parser.tokens))
    /\ UNCHANGED <<input, lineNo, scanner, parser, stmts, next, h, exitCode>>

\* ResolveExpression, then the evaluation and the print of the value.
EvaluateExpression ==
    /\ pc = "ResolveExpression"
    /\ LET Show(value) ==
               IF value.err = NoErr
               THEN /\ h' = [value.h EXCEPT !.stdout =
                                 Append(@, Repr(value.h, value.val))]
                    /\ Return(TRUE)
                    /\ UNCHANGED stderr
               ELSE /\ h' = value.h
                    /\ stderr' = Append(stderr, value.err)
                    /\ Return(FALSE)
           Store(resolved) ==
               /\ resolver' = resolved.r
               /\ expr' = resolved.node
               /\ IF HasErrors(resolved.r.errors)
                  THEN /\ stderr' = stderr \o resolved.r.errors
                       /\ Return(FALSE)
                       /\ UNCHANGED <<h, stages>>
                  ELSE /\ stages' = stages \cup {"Evaluate"}
                       /\ Show(Evaluate(resolved.node, GlobalEnv, h))
       IN  Store(Resolve(expr, resolver))
    /\ UNCHANGED <<input, lineNo, scanner, parser, stmts, next, exitCode>>

\* One turn of the loop of ResolveStatements.
ResolveStatements ==
    /\ pc = "ResolveStatements"
    /\ next <= Len(stmts)
    /\ LET Store(resolved) ==
               /\ resolver' = resolved.r
               /\ stmts' = [stmts EXCEPT ![next] = resolved.node]
       IN  Store(Resolve(stmts[next], resolver))
    /\ next' = next + 1
    /\ UNCHANGED <<input, expr, lineNo, pc, scanner, parser, h, stderr, ok,
                   exitCode, stages>>

\* The end of ResolveStatements and what run does with its result.
ResolveStatementsReturn ==
    /\ pc = "ResolveStatements"
    /\ next > Len(stmts)
    /\ IF HasErrors(resolver.errors)
       THEN /\ stderr' = stderr \o resolver.errors
            /\ Return(FALSE)
            /\ UNCHANGED <<next, stages>>
       ELSE /\ next' = 1
            /\ stages' = stages \cup {"Execute"}
            /\ pc' = "Execute"
            /\ UNCHANGED <<stderr, ok>>
    /\ UNCHANGED <<input, expr, lineNo, scanner, parser, stmts, resolver, h,
                   exitCode>>

\* One turn of the loop of run over stmts, and its end.
ExecuteStatements ==
    /\ pc = "Execute"
    /\ IF next <= Len(stmts)
       THEN LET Store(r) ==
                    /\ h' = r.h
                    /\ IF r.err # NoErr
                       THEN /\ stderr' = Append(stderr, r.err)
                            /\ Return(FALSE)
                            /\ UNCHANGED next
                       ELSE /\ next' = next + 1
                            /\ UNCHANGED <<stderr, ok, pc>>
            IN  Store(Execute(stmts[next], GlobalEnv, h))
       ELSE /\ Return(TRUE)
            /\ UNCHANGED <<next, h, stderr>>
    /\ UNCHANGED <<input, expr, lineNo, scanner, parser, stmts, resolver,
                   exitCode, stages>>

Next ==
    \/ runFile
    \/ runFileExit
    \/ runPrompt
    \/ runPromptLine
    \/ ScanTokens
    \/ ScanTokensReturn
    \/ ParseStatements
    \/ ParseStatementsReturn
    \/ ParseExpressionReturn
    \/ EvaluateExpression
    \/ ResolveStatements
    \/ ResolveStatementsReturn
    \/ ExecuteStatements

Spec == Init /\ [][Next]_vars

(***************************************************************************)
(* The parser on its own: ParseStatements and ParseExpression applied to   *)
(* the token sequences of up to MaxTokens tokens and a final EOF.          *)
(***************************************************************************)
MaxTokens == 3

ParserTokens ==
    {Token("Number", "1", [k |-> "num", v |-> <<1, 1>>], 1),
     Token("Semicolon", ";", NoLiteral, 1),
     Token("Print", "print", NoLiteral, 1),
     Token("LeftBrace", "{", NoLiteral, 1),
     Token("Var", "var", NoLiteral, 1),
     Token("Identifier", "x", NoLiteral, 1)}

TokenSequences ==
    {Append(tokens, Token("EOF", "(EOF)", NoLiteral, 1)) :
        tokens \in UNION {[1..n -> ParserTokens] : n \in 0..MaxTokens}}

ParserInit ==
    /\ input = File("")
    /\ lineNo = 0
    /\ pc \in {"ParseStatements", "ParseExpression"}
    /\ scanner = NewScanner("")
    /\ parser \in {NewParser(tokens) : tokens \in TokenSequences}
    /\ stmts = <<>>
    /\ expr = NoNode
    /\ resolver = NewResolver
    /\ next = 0
    /\ h = NewHeap(0)
    /\ stderr = <<>>
    /\ ok = TRUE
    /\ exitCode = -1
    /\ stages = {}

\* `return stmts, p.errors` of ParseStatements.
ParseStatementsEnd ==
    /\ pc = "ParseStatements"
    /\ Parser_isAtEnd(parser)
    /\ pc' = "returned"
    /\ UNCHANGED <<input, expr, lineNo, scanner, parser, stmts, resolver,
                   next, h, stderr, ok, exitCode, stages>>

\* A call of ParseExpression on the parser; a panic ends the process.
ParseExpressionCall ==
    /\ pc = "ParseExpression"
    /\ LET Store(parsed) ==
               /\ parser' = parsed.p
               /\ expr' = parsed.expr
               /\ pc' = IF parsed.p.panic = "nil" THEN "returned" ELSE "exit"
       IN  Store(ParseExpression(parser.tokens))
    /\ UNCHANGED <<input, lineNo, scanner, stmts, resolver, next, h, stderr,
                   ok, exitCode, stages>>

ParserNext ==
    \/ ParseStatements
    \/ ParseStatementsEnd
    \/ ParseExpressionCall

ParserSpec == ParserInit /\ [][ParserNext]_vars

(***************************************************************************)
(* Properties.  stages holds the stages the current run has entered;       *)
(* h.executed counts the statements whose Execute it has started.          *)
(***************************************************************************)

\* C1: the parser is entered only when the scanner returned no errors; in
\* file mode the resolver and the execution are entered only when the
\* parser returned no errors; and no statement is executed and no REPL
\* expression is evaluated when the resolver returned errors.
C1 ==
    /\ "ParseStatements" \in stages => Len(scanner.errors) = 0
    /\ (input.mode = "file" /\ Len(parser.errors) > 0)
          => (stages \cap {"ResolveStatements", "Execute"} = {}
              /\ h.executed = 0)
    /\ Len(resolver.errors) > 0
          => (stages \cap {"Execute", "Evaluate"} = {} /\ h.executed = 0)

\* A run that the resolver ended: it returned false with the errors of the
\* resolver and no statement was executed.
C1_Witness ==
    /\ pc = "returned"
    /\ ~ok
    /\ Len(scanner.errors) = 0
    /\ Len(parser.errors) = 0
    /\ Len(resolver.errors) > 0
    /\ "ResolveStatements" \in stages
    /\ h.executed = 0

\* C2: of a program that the scanner, the parser and the resolver accepted,
\* the only failure that run reports from the execution of the statements
\* is a RuntimeError: no BreakException and no ReturnException reaches it.
C2_Claim ==
    (pc = "returned" /\ ~ok /\ "Execute" \in stages)
        => stderr[Len(stderr)].ex = "RuntimeError"

\* C3: a loop is ended only by a break statement of which it is the nearest
\* enclosing loop, the loops around it go on, and a return inside blocks
\* and loops ends the call of the function it is written in.
C3_Claim ==
    /\ ~h.stray
    /\ (input = File(NestedBreakProgram) /\ pc = "exit")
          => h.stdout = <<"1", "1", "1", "2", "end">>
    /\ (input = File(ForBreakProgram) /\ pc = "exit")
          => h.stdout = <<"0", "end">>
    /\ (input = File(ReturnProgram) /\ pc = "exit")
          => h.stdout = <<"7", "after">>

\* C4: nothing is executed or evaluated after a runtime error was raised:
\* not in the block or the function body that holds the failing statement
\* and not at top level, where run reports the error and returns false
\* with the failing statement as the last one it executed.
C4 ==
    /\ h.late = 0
    /\ h.raised => /\ pc \in {"returned", "exit"}
                   /\ ~ok
                   /\ stderr[Len(stderr)].ex = "RuntimeError"
    /\ (h.raised /\ "Execute" \in stages) => next <= Len(stmts)

\* The division by zero in the block of BlockErrorProgram: run has returned
\* false, `print 2` of the block and `print 3` after it were not executed.
C4_Witness ==
    /\ input = File(BlockErrorProgram)
    /\ pc = "returned"
    /\ h.raised
    /\ ~ok
    /\ h.stdout = <<"1">>
    /\ next = 1
    /\ Len(stmts) = 2

\* C5 as the specification states it: ScopeProgram passes every stage and
\* prints `global` twice.
C5_Claim ==
    (input = File(ScopeProgram) /\ pc = "exit")
        => (exitCode = 0 /\ h.stdout = <<"global", "global">>)

\* C5: the resolver rejects ScopeProgram, whose block-local `a` is never
\* read, with "'a' declared but not used", and nothing is printed.  With a
\* read of the local `a` at the end of the block the program passes every
\* stage and prints global, global, local: the `a` inside show is bound at
\* show's declaration to the global `a`, also in the call made after the
\* block-local `a` was declared.
C5 ==
    /\ (input = File(ScopeProgram) /\ pc = "exit")
          => /\ exitCode = 65
             /\ h.stdout = <<>>
             /\ Len(stderr) = 1
             /\ stderr[1].message = "'a' declared but not used"
             /\ stages = {"ScanTokens", "ParseStatements",
                          "ResolveStatements"}
    /\ (input = File(ScopeProgramUsed) /\ pc = "exit")
          => /\ exitCode = 0
             /\ stderr = <<>>
             /\ h.stdout = <<"global", "global", "local">>

\* ScopeProgramUsed has run to its end: show was called before and after
\* the declaration of the block-local `a`.
C5_Witness ==
    /\ input = File(ScopeProgramUsed)
    /\ pc = "exit"
    /\ "Execute" \in stages
    /\ Len(h.stdout) = 3

\* What a counter that starts at 0 prints, call after call.
Counted == <<"1", "2", "3", "4", "5", "6", "7", "8", "9">>

\* C6: of the two functions returned by two calls of make in
\* CounterProgram(n), the first, called n times, prints 1 to n, each call
\* seeing the assignment to the captured c made by the call before it, and
\* the second then prints 1: it has a captured c of its own.  The two
\* frames are still in the heap at the end, c being n in one and 1 in the
\* other.
C6 ==
    \A n \in 1..MaxCalls :
        (input = File(CounterProgram(n)) /\ pc = "exit")
            => /\ exitCode = 0
               /\ h.stdout = SubSeq(Counted, 1, n) \o <<"1">>
               /\ \E f, g \in 1..Len(h.envs) :
                     /\ f # g
                     /\ HasKey(h.envs[f].values, "c")
                     /\ HasKey(h.envs[g].values, "c")
                     /\ h.envs[f].values["c"].value = NewNumber(Rat(n, 1))
                     /\ h.envs[g].values["c"].value = NewNumber(Rat(1, 1))

\* CounterProgram(MaxCalls) has run to its end.
C6_Witness ==
    /\ input = File(CounterProgram(MaxCalls))
    /\ pc = "exit"
    /\ Len(h.stdout) = MaxCalls + 1
    /\ h.stdout[MaxCalls + 1] = "1"

\* C7: every call of an initializer that ends without a runtime error
\* returns the instance the initializer is bound to: when the class is
\* called, when init is called on an instance, and when the body ends in
\* `return;`.
C7 ==
    /\ \A i \in 1..Len(h.initCalls) :
          /\ h.initCalls[i].receiver.k = "instance"
          /\ h.initCalls[i].returned = h.initCalls[i].receiver
    /\ (input = File(InitProgram) /\ pc = "exit")
          => (h.stdout = <<"true", "2">> /\ Len(h.initCalls) = 2)
    /\ (input = File(InitReturnProgram) /\ pc = "exit")
          => (h.stdout = <<"true", "2", "3">> /\ Len(h.initCalls) = 3)
    /\ (input = File(InitErrorProgram) /\ pc = "exit")
          => (h.stdout = <<>> /\ h.initCalls = <<>> /\ exitCode = 65)

\* InitReturnProgram has run to its end: its init, which ends in `return;`,
\* was called through the class twice and on the instance b once.
C7_Witness ==
    /\ input = File(InitReturnProgram)
    /\ pc = "exit"
    /\ Len(h.initCalls) = 3
    /\ h.initCalls[2].receiver = h.initCalls[1].receiver
    /\ h.initCalls[3].receiver # h.initCalls[1].receiver

\* What print writes for the literals of Literals.
Shown(text) == IF text = "\"s\"" THEN "s" ELSE text

\* The last error that run reported is a RuntimeError at the name lexeme.
FailedAt(lexeme) ==
    /\ ~ok
    /\ Len(stderr) > 0
    /\ stderr[Len(stderr)].ex = "RuntimeError"
    /\ stderr[Len(stderr)].token.lexeme = lexeme

\* C8: after `var x;` the frame holds a cell for x that has no value; a
\* read of x before any assignment is a runtime error and prints nothing,
\* at top level and in a block; after `x = v` the read yields v.
C8 ==
    /\ \A source \in {UninitializedProgram, UninitializedLocalProgram} :
          (input = File(source) /\ pc = "exit")
              => /\ exitCode = 65
                 /\ h.stdout = <<>>
                 /\ FailedAt("x")
                 /\ \E f \in 1..Len(h.envs) :
                       /\ HasKey(h.envs[f].values, "x")
                       /\ ~h.envs[f].values["x"].init
    /\ \A text \in Literals :
          (/\ input \in {File(InitializedProgram(text)),
                         File(InitializedLocalProgram(text))}
           /\ pc = "exit")
              => /\ exitCode = 0
                 /\ stderr = <<>>
                 /\ h.stdout = <<Shown(text)>>
                 /\ \E f \in 1..Len(h.envs) :
                       /\ HasKey(h.envs[f].values, "x")
                       /\ h.envs[f].values["x"].init

\* UninitializedProgram has ended in the runtime error of the read and the
\* cell of x in the root frame is still without a value.
C8_Witness ==
    /\ input = File(UninitializedProgram)
    /\ pc = "exit"
    /\ exitCode = 65
    /\ FailedAt("x")
    /\ HasKey(h.envs[GlobalEnv].values, "x")
    /\ ~h.envs[GlobalEnv].values["x"].init

\* C9: an assignment to y, which has no cell in the frame the assignment
\* targets, fails with a runtime error: afterwards no frame of the heap
\* holds a cell for y, the value is not printed, and the cell that was
\* assigned before the failure keeps the value it had.
C9 ==
    /\ \A source \in AssignPrograms :
          (input = File(source) /\ pc = "exit")
              => /\ exitCode = 65
                 /\ FailedAt("y")
                 /\ h.stdout = <<>>
                 /\ \A f \in 1..Len(h.envs) :
                       /\ ~HasKey(h.envs[f].values, "y")
                       /\ HasKey(h.envs[f].values, "z")
                             => h.envs[f].values["z"].value
                                    = NewNumber(Rat(1, 1))
    /\ (input.mode = "prompt" /\ pc = "returned"
           /\ input.lines[lineNo] = "z = 1")
          => /\ FailedAt("z")
             /\ "Evaluate" \in stages
             /\ h.stdout = <<"2">>
             /\ \A f \in 1..Len(h.envs) : ~HasKey(h.envs[f].values, "z")

\* The assignment to y inside the block of the third program of
\* AssignPrograms has failed: the block's frame and the root frame exist,
\* and neither holds y.
C9_Witness ==
    /\ input = File("var z = 0; { z = 1; y = 2; } print z;")
    /\ pc = "returned"
    /\ FailedAt("y")
    /\ Len(h.envs) = 2
    /\ h.envs[2].enclosing = GlobalEnv
    /\ ~HasKey(h.envs[2].values, "y")
    /\ ~HasKey(h.envs[GlobalEnv].values, "y")

\* C10: a second declaration of a name in the same scope is reported as
\* "already declared in this scope" when the scope is a block's or a
\* function's, and is not reported when the scope is the global one.
C10_Claim ==
    /\ (input = File(GlobalDuplicateProgram) /\ pc = "exit")
          => (exitCode = 0 /\ stderr = <<>> /\ h.stdout = <<"2">>)
    /\ (input = File(LocalDuplicateProgram) /\ pc = "exit")
          => /\ exitCode = 65
             /\ \E i \in 1..Len(stderr) :
                   stderr[i].message = "'b' already declared in this scope"
    /\ (input = File(ParameterDuplicateProgram) /\ pc = "exit")
          => /\ exitCode = 65
             /\ \E i \in 1..Len(stderr) :
                   stderr[i].message = "'p' already declared in this scope"

\* The messages of the errors that were written to stderr.
Messages ==
    {IF "message" \in DOMAIN stderr[i] THEN stderr[i].message
     ELSE stderr[i].ex : i \in 1..Len(stderr)}

\* The file run of source has ended with the exit code, the lines printed
\* and the error messages given, each message reported once.
Ends(source, code, out, messages) ==
    (input = File(source) /\ pc = "exit")
        => /\ exitCode = code
           /\ h.stdout = out
           /\ Messages = messages
           /\ Len(stderr) = Cardinality(messages)

\* C11: at the end of a local scope the resolver reports as 'declared but
\* not used' the names of that scope with no usage that do not begin with
\* `_`, and no other: not a local that is read or assigned, not a local
\* named `_x`, and never a name of the global scope.
C11 ==
    /\ Ends(UnusedProgram, 65, <<>>,
            {"'u' declared but not used", "'w' declared but not used"})
    /\ Ends(UnderscoreProgram, 0, <<"1">>, {})
    /\ Ends(AssignedOnlyProgram, 0, <<"1">>, {})
    /\ Ends(UnusedParameterProgram, 65, <<>>,
            {"'q' declared but not used"})
    /\ Ends(UnusedGlobalProgram, 65, <<>>, {"'m' declared but not used"})
    /\ Len(resolver.scopes) = 1
    /\ \A i \in 1..Len(resolver.errors) :
          LET name == resolver.errors[i].token.lexeme
          IN  resolver.errors[i].message = "'" \o name
                                             \o "' declared but not used"
                => SubSeq(name, 1, 1) # "_"

\* The resolver has ended the block of UnusedProgram: it holds one error
\* for u and one for w, none for v and _x, and run has returned false.
C11_Witness ==
    /\ input = File(UnusedProgram)
    /\ pc = "returned"
    /\ ~ok
    /\ Len(resolver.errors) = 2
    /\ {resolver.errors[i].token.lexeme : i \in 1..2} = {"u", "w"}

\* C12: a read of a name inside its own `var` initializer, the name being
\* declared and not yet defined in the innermost scope, is reported as
\* 'cannot refer to ... in its own initializer', in a block and at top
\* level; a read of a defined name is not, and neither is a read in a
\* function body of a name that is pending in the scope around it.
C12 ==
    /\ Ends(OwnInitializerProgram, 65, <<>>,
            {"cannot refer to 'a' in its own initializer"})
    /\ Ends(GlobalOwnInitializerProgram, 65, <<>>,
            {"cannot refer to 'a' in its own initializer"})
    /\ Ends(ShadowInitializerProgram, 65, <<>>,
            {"cannot refer to 'a' in its own initializer"})
    /\ Ends(DefinedReadProgram, 0, <<"1">>, {})
    /\ Ends(PendingOuterProgram, 0, <<"1">>, {})

\* The resolver has rejected the block of OwnInitializerProgram with the
\* one error of the read, and PendingOuterProgram is not concerned.
C12_Witness ==
    /\ input = File(OwnInitializerProgram)
    /\ pc = "returned"
    /\ ~ok
    /\ Len(resolver.errors) = 1
    /\ resolver.errors[1].token.lexeme = "a"
    /\ stderr = resolver.errors

\* C13: a return at top level is reported as 'cannot return outside
\* function', also after a function declaration, whose body leaves the
\* function type as it was; a return with a value directly in init is
\* reported as 'cannot return value from initializer'; a bare return in
\* init and a return with a value in a function nested in init are not
\* reported.
C13 ==
    /\ Ends(ResolveErrorProgram, 65, <<>>,
            {"cannot return outside function"})
    /\ Ends(ReturnAfterFunctionProgram, 65, <<>>,
            {"cannot return outside function"})
    /\ Ends(InitValueReturnProgram, 65, <<>>,
            {"cannot return value from initializer"})
    /\ Ends(InitReturnProgram, 0, <<"true", "2", "3">>, {})
    /\ Ends(NestedReturnProgram, 0, <<"1">>, {})
    /\ resolver.currentFunction = "None"

\* The resolver has rejected the return that follows the function f of
\* ReturnAfterFunctionProgram, and nothing was executed.
C13_Witness ==
    /\ input = File(ReturnAfterFunctionProgram)
    /\ pc = "returned"
    /\ ~ok
    /\ Len(resolver.errors) = 1
    /\ resolver.errors[1].message = "cannot return outside function"
    /\ h.executed = 0

\* C14: `this` is reported as 'cannot use this outside method' at top
\* level, in a plain function and in a plain function nested in a method,
\* and is accepted directly in the body of an initializer, of a method and
\* of a class-method.
C14 ==
    /\ Ends(ThisTopLevelProgram, 65, <<>>,
            {"cannot use this outside method"})
    /\ Ends(ThisFunctionProgram, 65, <<>>,
            {"cannot use this outside method"})
    /\ Ends(ThisNestedFunctionProgram, 65, <<>>,
            {"cannot use this outside method"})
    /\ Ends(ThisMethodProgram, 0, <<"1">>, {})
    /\ (input.mode = "prompt" /\ pc = "returned"
           /\ input.lines[lineNo] = "this")
          => /\ ~ok
             /\ stderr[Len(stderr)].message
                    = "cannot use this outside method"

\* The resolver has rejected the `this` in the function f that is nested
\* in the method m of ThisNestedFunctionProgram.
C14_Witness ==
    /\ input = File(ThisNestedFunctionProgram)
    /\ pc = "returned"
    /\ ~ok
    /\ Len(resolver.errors) = 1
    /\ resolver.errors[1].token.lexeme = "this"
    /\ h.executed = 0

\* C15: `a or b` is a when a is truthy and b otherwise, `a and b` is a
\* when a is falsy and b otherwise, the operand itself and not a boolean
\* made of it; the right operand is evaluated only in the cases where it
\* is the result, so that an assignment written there is made in those
\* cases and in no other.
C15 ==
    /\ Ends(LogicalValueProgram, 0,
            <<"1", "b", "nil", "nil", "2", "false">>, {})
    /\ Ends(LogicalEffectProgram, 0, <<"0", "3", "4">>, {})
    /\ (input = File(LogicalEffectProgram) /\ Len(h.stdout) = 0
           /\ Len(h.envs) > 0 /\ HasKey(h.envs[GlobalEnv].values, "x"))
          => h.envs[GlobalEnv].values["x"].value = NewNumber(Rat(0, 1))

\* LogicalEffectProgram has printed x after `true or (x = 1)` and
\* `false and (x = 2)`, and x is still 0.
C15_Witness ==
    /\ input = File(LogicalEffectProgram)
    /\ pc = "Execute"
    /\ h.stdout = <<"0">>
    /\ next = 5
    /\ h.envs[GlobalEnv].values["x"].value = NewNumber(Rat(0, 1))

\* C16: the operands of a Binary are evaluated left before right, the
\* callee of a Call before its arguments and the arguments first to last,
\* the object of a Set before its value; and after a runtime error in one
\* of them nothing that follows it is evaluated.
C16 ==
    /\ Ends(BinaryOrderProgram, 0, <<"1", "2", "3", "4">>, {})
    /\ Ends(CallOrderProgram, 0, <<"0", "1", "2", "9">>, {})
    /\ Ends(SetOrderProgram, 0, <<"0", "3", "3">>, {})
    /\ Ends(BinaryErrorProgram, 65, <<"1">>,
            {"unary - operand must be a number"})
    /\ Ends(CallErrorProgram, 65, <<"1", "2">>,
            {"unary - operand must be a number"})
    /\ Ends(SetErrorProgram, 65, <<>>,
            {"unary - operand must be a number"})
    /\ (input \in {File(BinaryErrorProgram), File(CallErrorProgram),
                    File(SetErrorProgram)}) => h.late = 0

\* SetOrderProgram has run to its end: q, which gives the object, printed
\* before p, which gives the value.
C16_Witness ==
    /\ input = File(SetOrderProgram)
    /\ pc = "exit"
    /\ exitCode = 0
    /\ Len(h.stdout) = 3
    /\ h.stdout[1] = "0"
    /\ Len(h.instances) = 1

\* What print writes for the result of `l op r`, l and r of Numerals and
\* r not "0" when op is "/".
Shows(n) ==
    CASE n = -2 -> "-2" [] n = 0 -> "0" [] n = 1 -> "1" [] n = 2 -> "2"
      [] n = 4 -> "4"

Truth(b) == IF b THEN "true" ELSE "false"

Expected(l, op, r) ==
    LET a == IF l = "2" THEN 2 ELSE 0
        b == IF r = "2" THEN 2 ELSE 0
    IN  CASE op = "-" -> Shows(a - b)
          [] op = "*" -> Shows(a * b)
          [] op = "/" -> Shows(a \div b)
          [] op = "<" -> Truth(a < b)
          [] op = "<=" -> Truth(a <= b)
          [] op = ">" -> Truth(a > b)
          [] op = ">=" -> Truth(a >= b)

\* The one error reported is a RuntimeError with the message, at the
\* operator op of line 1, and nothing was printed.
OperatorError(op, message) ==
    /\ exitCode = 65
    /\ h.stdout = <<>>
    /\ Len(stderr) = 1
    /\ stderr[1].ex = "RuntimeError"
    /\ stderr[1].message = message
    /\ stderr[1].token.lexeme = op
    /\ stderr[1].token.line = 1

\* C17: `l op r`, op one of - * / < <= > >=, with an operand that is no
\* number (nil or a string, on either side) is a runtime error at the
\* operator token and prints nothing; `/` with two numbers and a zero
\* right operand is the runtime error 'division by zero'; every other
\* pair of numbers gives its value.
C17 ==
    \A l \in Operands, r \in Operands, op \in NumericOperators :
        (input = File(OperatorProgram(l, op, r)) /\ pc = "exit")
            => IF l \notin Numerals \/ r \notin Numerals
               THEN OperatorError(op, op \o " operands must be numbers")
               ELSE IF op = "/" /\ r = "0"
               THEN OperatorError(op, "division by zero")
               ELSE /\ exitCode = 0
                    /\ stderr = <<>>
                    /\ h.stdout = <<Expected(l, op, r)>>

\* `2 / 0` has ended in the runtime error at `/`, and `2 < nil` in the one
\* at `<`: here the first.
C17_Witness ==
    /\ input = File(OperatorProgram("2", "/", "0"))
    /\ pc = "exit"
    /\ OperatorError("/", "division by zero")
    /\ stderr[1].token.ty = "Slash"

\* C18: a.m is the method m of the class, bound to a, as long as a has no
\* field m, and is the field once `a.m = 2` has set it; the Set leaves the
\* method table of the class alone, so that another instance still gets
\* the method, bound to itself; a name that is neither a field nor a
\* method is the runtime error 'undefined property'.
C18 ==
    /\ Ends(FieldShadowProgram, 65, <<"1", "2", "5">>,
            {"undefined property 'q'"})
    /\ (input = File(FieldShadowProgram) /\ Len(h.classes) = 2)
          => /\ h.classes[2].name = "A"
             /\ DOMAIN h.classes[2].methods = {"m"}
             /\ h.classes[2].methods["m"] = 1
             /\ h.fns[1].name = "m"
             /\ h.classes[1].methods = EmptyMap

\* FieldShadowProgram has set the field m of the instance a and has
\* printed it; the class A still has its method m.
C18_Witness ==
    /\ input = File(FieldShadowProgram)
    /\ pc = "Execute"
    /\ h.stdout = <<"1", "2">>
    /\ Len(h.instances) >= 1
    /\ HasKey(h.instances[1].fields, "m")
    /\ h.instances[1].fields["m"] = NewNumber(Rat(2, 1))
    /\ HasKey(h.classes[2].methods, "m")

\* C19: a break outside every loop is the syntax error 'break can only be
\* used inside a loop', a break in the body of a while or a for loop is
\* none; the loop depth is 0 again after every top-level statement, also
\* when the body of a loop ended in a parse error, so that a break after
\* the loop is rejected.
C19 ==
    /\ parser.loopDepth = 0
    /\ Ends(BreakTopLevelProgram, 65, <<>>,
            {"break can only be used inside a loop"})
    /\ Ends(BreakAfterLoopProgram, 65, <<>>,
            {"break can only be used inside a loop"})
    /\ Ends(BreakAfterWhileErrorProgram, 65, <<>>,
            {"expected expression", "break can only be used inside a loop"})
    /\ Ends(BreakAfterForErrorProgram, 65, <<>>,
            {"expected expression", "break can only be used inside a loop"})
    /\ Ends(NestedBreakProgram, 0, <<"1", "1", "1", "2", "end">>, {})
    /\ Ends(ForBreakProgram, 0, <<"0", "end">>, {})

\* The parser has reported the body of the loop of
\* BreakAfterWhileErrorProgram and then the break that follows the loop.
C19_Witness ==
    /\ input = File(BreakAfterWhileErrorProgram)
    /\ pc = "ParseStatements"
    /\ Parser_isAtEnd(parser)
    /\ Len(parser.errors) = 2
    /\ parser.errors[1].message = "expected expression"
    /\ parser.errors[2].message = "break can only be used inside a loop"
    /\ parser.loopDepth = 0

\* C20: block comments nest: of NestedCommentProgram the scanner gives the
\* tokens of `print 1;`, `print 3;` and `print 4;` and no other, `print 2;`
\* after the inner */ being part of the comment, and the program prints
\* 1, 3 and 4.
C20 ==
    /\ Ends(NestedCommentProgram, 0, <<"1", "3", "4">>, {})
    /\ (input = File(NestedCommentProgram) /\ pc # "ScanTokens"
           /\ "ScanTokens" \in stages)
          => /\ scanner.errors = <<>>
             /\ [i \in 1..Len(scanner.tokens) |-> scanner.tokens[i].lexeme]
                    = <<"print", "1", ";", "print", "3", ";",
                        "print", "4", ";", "(EOF)">>

\* The scanner has reached the end of NestedCommentProgram with nine
\* tokens, the last of them the `;` that follows `print 4`.
C20_Witness ==
    /\ input = File(NestedCommentProgram)
    /\ pc = "ScanTokens"
    /\ Scanner_isAtEnd(scanner)
    /\ Len(scanner.tokens) = 9
    /\ scanner.tokens[8].lexeme = "4"


\* C21: every variable, assignment and `this` reference that the resolver
\* gave a depth of zero or more finds, when it is evaluated, the frame that
\* many links up from the current environment, and that frame holds a cell
\* for the name; the programs evaluate such references in blocks, calls,
\* for loops, bound methods and classes with and without a superclass.
C21 ==
    /\ ~h.unresolved
    /\ Ends(SuperclassReferenceProgram, 0, <<"1">>, {})
    /\ Ends(ClassReferenceProgram, 0, <<"2">>, {})
    /\ Ends(LoopReferenceProgram, 0, <<>>, {})

\* SuperclassReferenceProgram has run to its end: the method of B read the
\* global g three links up, past the frames of `this` and of `super`.
C21_Witness ==
    /\ input = File(SuperclassReferenceProgram)
    /\ pc = "exit"
    /\ <<"Variable", 3>> \in h.lookups
    /\ h.stdout = <<"1">>


\* The references and declarations written inside node n, which has `above`
\* local scopes around it: a Variable, Assign or This node gives its kind,
\* its name and its depth, a declaration gives "Declare" and its name.  A
\* block and a function body add one scope, a class body one for `this`
\* and one more for `super` when it has a superclass.
RECURSIVE Marks(_, _)
Marks(n, above) ==
    LET Each(nodes, k) == UNION {Marks(nodes[i], k) : i \in 1..Len(nodes)}
        Mark(kind, name, distance) ==
            [kind |-> kind, lexeme |-> name.lexeme, distance |-> distance,
             above |-> above]
    IN  CASE n.kind = "nil" -> {}
          [] n.kind = "Variable" -> {Mark("Variable", n.name, n.distance)}
          [] n.kind = "This" -> {Mark("This", n.keyword, n.distance)}
          [] n.kind = "Assign" ->
                {Mark("Assign", n.name, n.distance)} \cup Marks(n.value, above)
          [] n.kind = "VarStmt" ->
                {Mark("Declare", n.name, 0)} \cup Marks(n.initializer, above)
          [] n.kind = "FnStmt" ->
                {Mark("Declare", n.name, 0)} \cup Marks(n.function, above)
          [] n.kind = "Fn" ->
                {[kind |-> "Declare", lexeme |-> n.parameters[i].lexeme,
                  distance |-> 0, above |-> above + 1] :
                      i \in 1..Len(n.parameters)}
                \cup Each(n.body, above + 1)
          [] n.kind = "BlockStmt" -> Each(n.statements, above + 1)
          [] n.kind = "WhileStmt" ->
                Marks(n.condition, above) \cup Marks(n.body, above)
          [] n.kind = "ClassStmt" ->
                {Mark("Declare", n.name, 0)}
                \cup Marks(n.superclass, above)
                \cup Each(n.classMethods \o n.methods,
                          IF n.superclass # NoNode THEN above + 2
                          ELSE above + 1)
          [] OTHER -> Each(Children(n), above)

\* The number of statements of stmts that the resolver has been through.
ResolvedStmts ==
    IF pc = "ResolveStatements" THEN next - 1
    ELSE IF pc = "Execute" THEN Len(stmts)
    ELSE 0

\* The name is declared in a local scope somewhere in stmts.
DeclaredLocally(lexeme) ==
    \E i \in 1..Len(stmts) : \E d \in Marks(stmts[i], 0) :
        d.kind = "Declare" /\ d.lexeme = lexeme /\ d.above > 0

\* The name is declared at top level by statement i or one before it: it is
\* in the resolver's outermost scope when statement i is resolved.
DeclaredGlobally(lexeme, i) ==
    \E j \in 1..i :
        /\ stmts[j].kind \in {"VarStmt", "FnStmt", "ClassStmt"}
        /\ stmts[j].name.lexeme = lexeme

\* The references of the resolved statements to a name that is found in
\* the resolver's outermost scope and is declared in no other scope.
GlobalReferences ==
    UNION {{ref \in Marks(stmts[i], 0) :
                /\ ref.kind \in {"Variable", "Assign"}
                /\ DeclaredGlobally(ref.lexeme, i)
                /\ ~DeclaredLocally(ref.lexeme)} : i \in 1..ResolvedStmts}

\* C22 as the specification states it: a reference to a name found only in
\* the resolver's outermost scope is annotated with depth -1, whatever the
\* number of local scopes around the reference.
C22_Claim == \A ref \in GlobalReferences : ref.distance = -1

\* C22: a reference to a name found only in the resolver's outermost scope
\* is annotated with the number of local scopes around the reference, 0 at
\* top level, which is the index of the outermost scope counted from the
\* innermost one; -1 is the depth of a reference to a name that is found in
\* no scope.
C22 ==
    /\ \A ref \in GlobalReferences : ref.distance = ref.above
    /\ \A i \in 1..ResolvedStmts : \A ref \in Marks(stmts[i], 0) :
            (/\ ref.kind \in {"Variable", "Assign"}
             /\ ~DeclaredGlobally(ref.lexeme, i)
             /\ ~DeclaredLocally(ref.lexeme)) => ref.distance = -1

\* The resolver has been through SuperclassReferenceProgram: the read of
\* the global g inside the method of B, with the scopes of the method, of
\* `this` and of `super` around it, has depth 3.
C22_Witness ==
    /\ input = File(SuperclassReferenceProgram)
    /\ pc = "Execute"
    /\ \E ref \in GlobalReferences :
            ref.lexeme = "g" /\ ref.above = 3 /\ ref.distance = 3


\* The references of the statements and of the expression that the
\* resolver has been through.
ResolvedReferences ==
    {ref \in UNION {Marks(stmts[i], 0) : i \in 1..ResolvedStmts}
                 \cup (IF pc = "ResolveExpression" THEN {}
                       ELSE Marks(expr, 0)) :
        ref.kind \in {"Variable", "Assign", "This"}}

\* C23: after resolution every Variable, Assign and This node carries a
\* depth that is -1 or an index of the scope stack as it was when the node
\* was resolved: between 0 and the number of local scopes around the node,
\* the index of the outermost scope.
C23 == \A ref \in ResolvedReferences : ref.distance \in -1..ref.above

\* DepthsProgram has been resolved: under its two blocks the read of g has
\* the depth of the outermost scope, the read of a a depth between the two
\* ends, and the read of clock depth -1.
C23_Witness ==
    /\ input = File(DepthsProgram)
    /\ pc = "Execute"
    /\ \E ref \in ResolvedReferences :
            ref.above >= 2 /\ ref.distance = ref.above
    /\ \E ref \in ResolvedReferences :
            ref.distance > 0 /\ ref.distance < ref.above
    /\ \E ref \in ResolvedReferences : ref.distance = -1


\* The statements that ParseStatements has collected: the number that a
\* print statement prints, and 0 for any other statement.
Parsed ==
    [i \in 1..Len(stmts) |->
        IF stmts[i].kind = "PrintStmt" /\ stmts[i].expression.kind = "Literal"
        THEN stmts[i].expression.value.v[1] ELSE 0]

\* ParseStatements has come to the end of the tokens of the source.
ParsedAll(source) ==
    input = File(source) /\ pc = "ParseStatements" /\ Parser_isAtEnd(parser)

\* C24 as the specification states it: a parse error discards the one
\* statement it is in; the tokens up to the next `;`, or up to but not
\* including the next of class, fun, var, for, if, while, print and return,
\* are skipped, and the statements before the error and from that point on
\* are parsed and returned.  The error of MissingSemicolonProgram is at the
\* `print` of `print 2;`, which is such a point.
C24_Claim ==
    /\ ParsedAll(RecoverySemicolonProgram)
          => (Parsed = <<1, 2>> /\ Len(parser.errors) = 1)
    /\ ParsedAll(RecoveryKeywordProgram)
          => (Parsed = <<1, 0, 4>> /\ Len(parser.errors) = 1)
    /\ ParsedAll(MissingSemicolonProgram)
          => (Parsed = <<2, 3>> /\ Len(parser.errors) = 1)


\* The lexemes of the tokens, the EOF token left out, one after the other.
RECURSIVE Lexemes(_)
Lexemes(tokens) ==
    IF Len(tokens) = 0 THEN ""
    ELSE IF Head(tokens).ty = "EOF" THEN Lexemes(Tail(tokens))
    ELSE Head(tokens).lexeme \o Lexemes(Tail(tokens))

\* One character, or the two of a // , a /* or a */, of the removal of the
\* comments and of the blanks outside string literals from src.  st.out is
\* what has been kept of the characters before offset st.i; st.mode is
\* "code", "string", "line" inside a // comment or "block" inside a block
\* comment, and st.open is the number of block comments open at st.i.
StripStep(src, st) ==
    LET c == CharAt(src, st.i)
        two == IF st.i + 2 <= Len(src) THEN Slice(src, st.i, st.i + 2) ELSE c
        Go(kept, n, mode, open) ==
            [out |-> st.out \o kept, i |-> st.i + n, mode |-> mode,
             open |-> open]
    IN  CASE st.mode = "code" ->
                IF c = "\"" THEN Go(c, 1, "string", 0)
                ELSE IF two = "//" THEN Go("", 2, "line", 0)
                ELSE IF two = "/*" THEN Go("", 2, "block", 1)
                ELSE IF c \in {" ", "\r", "\t", "\n"}
                THEN Go("", 1, "code", 0)
                ELSE Go(c, 1, "code", 0)
          [] st.mode = "string" ->
                Go(c, 1, IF c = "\"" THEN "code" ELSE "string", 0)
          [] st.mode = "line" ->
                IF c = "\n" THEN Go("", 0, "code", 0)
                ELSE Go("", 1, "line", 0)
          [] st.mode = "block" ->
                IF two = "/*" THEN Go("", 2, "block", st.open + 1)
                ELSE IF two = "*/"
                THEN Go("", 2, IF st.open = 1 THEN "code" ELSE "block",
                        st.open - 1)
                ELSE Go("", 1, "block", st.open)

\* Up to n steps of the removal.
RECURSIVE StripSteps(_, _, _)
StripSteps(src, st, n) ==
    IF n = 0 \/ st.i >= Len(src) THEN st
    ELSE StripSteps(src, StripStep(src, st), n - 1)

RECURSIVE StripFrom(_, _)
StripFrom(src, st) ==
    IF st.i >= Len(src) THEN st.out
    ELSE StripFrom(src, StripSteps(src, st, 16))

\* The source without its comments and without the blanks outside string
\* literals.
Strip(src) ==
    StripFrom(src, [out |-> "", i |-> 0, mode |-> "code", open |-> 0])

\* C25: as long as the scanner has found no error, the lexemes of its
\* tokens, EOF left out, joined in order are the source it has been
\* through with the comments and the blanks outside string literals
\* removed; at the end of the source that is the whole source.
C25 ==
    scanner.errors = <<>>
        => Lexemes(scanner.tokens)
               = Strip(Slice(scanner.source, 0, scanner.current))

\* The scanner has reached the end of BlanksProgram: the lexemes keep the
\* blank of the string and lose the comment and every other blank.
C25_Witness ==
    /\ input = File(BlanksProgram)
    /\ Scanner_isAtEnd(scanner)
    /\ scanner.errors = <<>>
    /\ Lexemes(scanner.tokens) = "print\"a b\";print1.5;print2;"


\* The number of newline characters of text.
Newlines(text) == Cardinality({i \in 0..(Len(text) - 1) : CharAt(text, i) = "\n"})

\* C26 as the specification states it: the line of every token, EOF
\* included, is 1 plus the number of newlines of the source before the end
\* of the token, be they between tokens, at the end of a line comment,
\* inside a string literal or inside a block comment.
C26_Claim ==
    [][(pc = "ScanTokens" /\ Len(scanner'.tokens) > Len(scanner.tokens))
          => scanner'.tokens[Len(scanner'.tokens)].line
                 = 1 + Newlines(Slice(scanner.source, 0, scanner'.current))
      ]_vars


\* C27 as the specification states it: on a token sequence that ends with
\* EOF, the sequence of EOF alone included, ParseStatements and
\* ParseExpression keep current inside the token slice and never evaluate
\* previous() at current = 0, so that no read of the slice is out of
\* bounds, error recovery included.
C27_Claim ==
    /\ parser.current \in 0..(Len(parser.tokens) - 1)
    /\ parser.panic = "nil"


\* C28: every argument of a call is evaluated, with its effects, before
\* the callee is tested for being callable and for its arity: when nil, a
\* function of one parameter and a class whose init has one are called
\* with the arguments p(1) and p(2), both arguments print before the error
\* is raised, the body of the callee does not run (it would print 9), and
\* no instance is created and no initializer called.
C28 ==
    /\ Ends(NotCallableProgram, 65, <<"1", "2">>, {"value is not callable"})
    /\ Ends(FunctionArityProgram, 65, <<"1", "2">>,
            {"expected 1 arguments but got 2"})
    /\ Ends(ClassArityProgram, 65, <<"1", "2">>,
            {"expected 1 arguments but got 2"})
    /\ (input \in {File(NotCallableProgram), File(FunctionArityProgram),
                   File(ClassArityProgram)})
          => (h.instances = <<>> /\ h.initCalls = <<>>)
    /\ (input \in {File(NotCallableProgram), File(FunctionArityProgram),
                   File(ClassArityProgram)} /\ pc = "exit")
          => FailedAt(")")

\* ClassArityProgram has ended: p(1) and p(2) have printed, the call of K
\* with two arguments has failed, and there is no instance.
C28_Witness ==
    /\ input = File(ClassArityProgram)
    /\ pc = "exit"
    /\ h.stdout = <<"1", "2">>
    /\ exitCode = 65
    /\ h.instances = <<>>


\* C29 as the specification states it: in REPL mode the cells that user
\* code gave the global environment are the same when the next line starts
\* to execute, whatever the name, `clock` included, and also when a line
\* between fails to parse: no step of the driver other than the execution
\* of statements and the evaluation of the expression changes a cell of
\* the global frame that holds a value other than a native function.
C29_Claim ==
    [][(/\ input.mode = "prompt"
        /\ pc \notin {"main", "Execute", "ResolveExpression"})
          => \A name \in DOMAIN h.envs[GlobalEnv].values :
                h.envs[GlobalEnv].values[name].value.k # "native"
                    => /\ name \in DOMAIN h'.envs[GlobalEnv].values
                       /\ h'.envs[GlobalEnv].values[name]
                              = h.envs[GlobalEnv].values[name]]_vars


\* The functions of the heap that Bind made, and those of the method
\* tables of the classes.
BoundMethods == {f \in 1..Len(h.fns) : h.fns[f].receiver # NewNil}

TableMethods ==
    UNION {{h.classes[c].methods[name] : name \in DOMAIN h.classes[c].methods} :
              c \in 1..Len(h.classes)}

\* C30: the frame of a bound method defines `this`, the receiver it was
\* bound to, and nothing else; its parent is the closure frame of the
\* method of the class table with the same declaration; no other function
\* has that frame.  A method of a class table stays unbound and its
\* closure frame gets no `this`.  So a method bound to a and then to b
\* answers with a's field through the first bound method and with b's
\* through the second, also after both exist.
C30 ==
    /\ \A f \in BoundMethods :
          LET frame == h.envs[h.fns[f].env]
          IN  /\ DOMAIN frame.values = {"this"}
              /\ frame.values["this"].value = h.fns[f].receiver
              /\ \E m \in TableMethods :
                    /\ h.fns[m].declaration = h.fns[f].declaration
                    /\ h.fns[m].env = frame.enclosing
              /\ \A g \in 1..Len(h.fns) :
                    g # f => h.fns[g].env # h.fns[f].env
    /\ \A m \in TableMethods :
          /\ h.fns[m].receiver = NewNil
          /\ "this" \notin DOMAIN h.envs[h.fns[m].env].values
    /\ Ends(BindProgram, 0, <<"1", "2", "1">>, {})

\* BindProgram has ended: there are two bound methods of one declaration,
\* one for each of the two instances, and the three calls printed 1, 2, 1.
C30_Witness ==
    /\ input = File(BindProgram)
    /\ pc = "exit"
    /\ h.stdout = <<"1", "2", "1">>
    /\ \E f, g \in BoundMethods :
          /\ h.fns[f].receiver # h.fns[g].receiver
          /\ h.fns[f].declaration = h.fns[g].declaration
          /\ h.fns[f].env # h.fns[g].env

=============================================================================
